---- MODULE Spec2Model ----
(***************************************************************************)
(* Model of the ULB seat booking pipeline (core/booking.py, core/auth.py). *)
(* One run of execute_booking: login, the captcha loop of handle_captcha,  *)
(* then the bounded retry loop over find_timeslot, select_seat and         *)
(* reserve_seat.  The portal and the OCR engine are the environment: every *)
(* document they return and every recognised text is chosen by \E.         *)
(***************************************************************************)
EXTENDS Integers, Sequences, FiniteSets, TLC

\* core/booking.py: RETRIES = 3
RETRIES == 3

\* config.MAX_CAPTCHA_RETRIES is imported by core/auth.py; its value is a
\* deployment setting, so the model treats it as a parameter.
MAX_CAPTCHA_RETRIES == 3

\* Longest OCR result the environment produces (lengths 0..MaxOcrLen).
MaxOcrLen == 4

\* Number of different links/labels the portal can put in one document.
NumLinks == 2

VARIABLES
    pc,               \* position of the run of execute_booking
    login_resp,       \* login: markers of the response to the credential POST
    html,             \* handle_captcha: the current document
    captcha_attempt,  \* handle_captcha: loop variable `attempt`
    captcha_text,     \* handle_captcha: length of the last OCR result (-1: none yet)
    captcha_doc,      \* id of the document the last solved image came from
    last_form,        \* the last confirmation form POSTed
    post_resp,        \* markers of the response to the last form POST
    captcha_end,      \* how handle_captcha ended ("" while it has not)
    reqs,             \* what this call of handle_captcha has done so far
    calls,            \* how often execute_booking invoked each function
    attempt,          \* execute_booking: loop variable `attempt`
    timeslot_href,    \* execute_booking local
    seat_href,        \* execute_booking local
    seat_desc,        \* execute_booking local
    stages,           \* every stage call so far: function, attempt, argument, result
    outcomes,         \* outcome of every finished attempt, in order
    last_error,       \* execute_booking local
    auth_error,       \* the exception login or handle_captcha raised
    raised,           \* the exception execute_booking raised to its caller
    result,           \* the record execute_booking returned
    tr_in,            \* _target_days_to_trigger_days: target_days and date_offset
    tr_out,           \* _target_days_to_trigger_days: what the call returned
    tr_back,          \* the translation of tr_out with the opposite offset
    ft_doc,           \* find_timeslot: the slot listing the portal returns
    ft_req,           \* find_timeslot: target time, group_room, preferred_section
    ft_out,           \* find_timeslot: the link returned or the error raised
    ss_doc,           \* select_seat: the slot-detail document the portal returns
    ss_req,           \* select_seat: group_room and the configured preference lists
    ss_out,           \* select_seat: the pair returned or the error raised
    rs_resp,          \* reserve_seat: the response to the GET of the seat link
    rs_out,           \* reserve_seat: the details returned or the error raised
    sj_in,            \* schedule_job: the registry before the call, and the job
    sj_out,           \* schedule_job: the registry after one call, two calls, a removal
    store,            \* db: the rows of the jobs table, by id
    registry,         \* the entries of the APScheduler instance `scheduler`
    booking_log,      \* db: the rows of the booking_log table
    sched_run,        \* the invocation of run_booking_job by the scheduler
    manual_run,       \* the invocation of the job_run_now handler
    started,          \* scheduler.start() has run
    runs,             \* concurrent invocations of execute_booking
    session_uses,     \* which invocation made a request on which session
    stopping,         \* scheduler.shutdown() has been called
    cron_in,          \* a recurring job: cron_days, date_offset, zone of the process
    cron_out,         \* the trigger days registered, the firing day, the target date
    today,            \* the wall-clock date, as a day number
    date_run,         \* one job run: its target date and what it passed on
    handlers          \* handlers running concurrently on one job id: position and locals

vars == <<pc, login_resp, html, captcha_attempt, captcha_text, captcha_doc,
          last_form, post_resp, captcha_end, reqs, calls, attempt, timeslot_href,
          seat_href, seat_desc, stages, outcomes, last_error, auth_error, raised,
          result, tr_in, tr_out, tr_back, ft_doc, ft_req, ft_out,
          ss_doc, ss_req, ss_out, rs_resp, rs_out, sj_in, sj_out, store,
          registry, booking_log, sched_run, manual_run, started, runs,
          session_uses, stopping, cron_in, cron_out, today, date_run, handlers>>

\* The variables of the pure functions, which a run of execute_booking leaves alone.
pureVars == <<tr_in, tr_out, tr_back, ft_doc, ft_req, ft_out,
              ss_doc, ss_req, ss_out, rs_resp, rs_out, sj_in, sj_out, store,
              registry, booking_log, sched_run, manual_run, started, runs,
              session_uses, stopping, cron_in, cron_out, today, date_run,
              handlers>>

\* The variables of each function looked at on its own.
trVars == <<tr_in, tr_out, tr_back>>

ftVars == <<ft_doc, ft_req, ft_out>>

ssVars == <<ss_doc, ss_req, ss_out>>

rsVars == <<rs_resp, rs_out>>

sjVars == <<sj_in, sj_out>>

jobVars == <<store, registry, booking_log, sched_run, manual_run, started>>

runVars == <<runs, session_uses, stopping>>

cronVars == <<cron_in, cron_out>>

dateVars == <<today, date_run>>

raceVars == <<handlers>>

bookVars == <<attempt, timeslot_href, seat_href, seat_desc, stages, outcomes,
              last_error, result>>

\* Exceptions are identified by their kind and the booking attempt that raised
\* them (0: raised by login or handle_captcha).
None == [kind |-> "None", at |-> 0]

\* Links, labels and detail strings are identified by what they are, the
\* booking attempt whose document they were read from, and which one they are.
NoLink == [kind |-> "none", at |-> 0, id |-> 0]

NoForm == [sform_token |-> -1, image_of |-> -1, captcha |-> -1]

NoResult == [success |-> FALSE, seat_desc |-> NoLink, message |-> NoLink]

NoDoc == [id |-> -1, login |-> FALSE, img |-> FALSE, token |-> FALSE,
          start_text |-> FALSE, start_link |-> FALSE, overview |-> FALSE]

\* A document is identified by the iteration of the captcha loop that fetched
\* it (0: the document login returned).  The markers tested on a document:
\*   login       "Sie sind angemeldet als" in text
\*   img         re.search(r"data:image/jpeg;base64,...") matches
\*   token       re.search(r'name="sform_token"\s+value="..."') matches
\*   start_text  "Neue Platzreservierung starten" in text
\*   start_link  re.search(r'href="..."[^>]*>Neue Platzreservierung starten') matches
\*   overview    "Schnellübersicht" in text
\* A match of the start_link pattern contains the start_text literal.
Pages(i) ==
    { d \in [id : {i}, login : BOOLEAN, img : BOOLEAN, token : BOOLEAN,
             start_text : BOOLEAN, start_link : BOOLEAN, overview : BOOLEAN] :
        d.start_link => d.start_text }

\* Documents fetched inside the captcha loop.  handle_captcha never reads the
\* login marker; the session is logged in, so these pages carry it.
CaptchaPages(i) == { d \in Pages(i) : d.login }

\* Responses to the confirmation form POST:
\*   erfolg   "Erfolg" in text
\*   weiter   re.search(r'href="..."[^>]*class="...ym-success..."') matches
PostResponses ==
    { r \in [erfolg : BOOLEAN, weiter : BOOLEAN, start_text : BOOLEAN,
             start_link : BOOLEAN, overview : BOOLEAN] :
        r.start_link => r.start_text }

NoResp == [erfolg |-> FALSE, weiter |-> FALSE, start_text |-> FALSE,
           start_link |-> FALSE, overview |-> FALSE]

\* token_match.group(1): the one-time form token of a document; each document
\* carries its own (-1: the pattern does not match).
TokenOf(doc) == IF doc.token THEN doc.id ELSE -1

\* Mutant of TooShort: the threshold is one too low.
TooShortOffByOne(len) == len = 0 \/ len < 3

\* Line 66: `not captcha_text or len(captcha_text) < 4`.
TooShort(len) == len = 0 \/ len < 4

\* Bookkeeping: one more invocation of each function in `what`.
Count(what) == [k \in DOMAIN calls |-> IF k \in what THEN calls[k] + 1 ELSE calls[k]]

CallKinds == {"login", "handle_captcha", "find_timeslot", "select_seat",
              "reserve_seat", "sleep"}

\* Bookkeeping inside handle_captcha: OCR calls, token extractions, form POSTs,
\* GETs of BASE_URL, GETs of a start link, GETs of the "Weiter" link.
Did(what) == [k \in DOMAIN reqs |-> IF k \in what THEN reqs[k] + 1 ELSE reqs[k]]

ReqKinds == {"solve_captcha", "token_search", "submit", "base_get", "follow",
             "weiter_get"}

NoReqs == [k \in ReqKinds |-> 0]

\* No call of _target_days_to_trigger_days or find_timeslot is being looked at.
TranslateIdle ==
    /\ tr_in = "idle"
    /\ tr_out = "idle"
    /\ tr_back = "idle"

FindIdle ==
    /\ ft_doc = "idle"
    /\ ft_req = "idle"
    /\ ft_out = "idle"

SelectIdle ==
    /\ ss_doc = "idle"
    /\ ss_req = "idle"
    /\ ss_out = "idle"

ReserveIdle ==
    /\ rs_resp = "idle"
    /\ rs_out = "idle"

RegistryIdle ==
    /\ sj_in = "idle"
    /\ sj_out = "idle"

JobsIdle ==
    /\ store = "idle"
    /\ registry = "idle"
    /\ booking_log = "idle"
    /\ sched_run = "idle"
    /\ manual_run = "idle"
    /\ started = "idle"

RunsIdle ==
    /\ runs = "idle"
    /\ session_uses = "idle"
    /\ stopping = "idle"

CronIdle ==
    /\ cron_in = "idle"
    /\ cron_out = "idle"

DateIdle ==
    /\ today = "idle"
    /\ date_run = "idle"

RaceIdle == handlers = "idle"

PureIdle ==
    /\ TranslateIdle
    /\ FindIdle
    /\ SelectIdle
    /\ ReserveIdle
    /\ RegistryIdle
    /\ JobsIdle
    /\ RunsIdle
    /\ CronIdle
    /\ DateIdle
    /\ RaceIdle

Init ==
    /\ PureIdle
    /\ pc = "login"
    /\ login_resp = NoDoc
    /\ html = NoDoc
    /\ captcha_attempt = 0
    /\ captcha_text = -1
    /\ captcha_doc = -1
    /\ last_form = NoForm
    /\ post_resp = NoResp
    /\ captcha_end = ""
    /\ reqs = NoReqs
    /\ calls = [k \in CallKinds |-> 0]
    /\ attempt = 0
    /\ timeslot_href = NoLink
    /\ seat_href = NoLink
    /\ seat_desc = NoLink
    /\ stages = <<>>
    /\ outcomes = <<>>
    /\ last_error = None
    /\ auth_error = None
    /\ raised = None
    /\ result = NoResult

\* Mutant of AuthRaise: login and handle_captcha sit inside the retried block,
\* so their exception is caught and authentication starts over.
AuthRaiseRetried(kind) ==
    /\ auth_error' = [kind |-> kind, at |-> 0]
    /\ pc' = "login"
    /\ UNCHANGED raised

\* An exception of login or handle_captcha leaves execute_booking at once:
\* lines 31-32 of core/booking.py are outside the try block.
AuthRaise(kind) ==
    /\ auth_error' = [kind |-> kind, at |-> 0]
    /\ pc' = "raised"
    /\ raised' = auth_error'

\* Mutant of Login: the document of the credential POST is returned without
\* testing the marker.
LoginUnchecked ==
    /\ pc = "login"
    /\ calls' = Count({"login"})
    /\ \E doc \in Pages(0) :
         /\ login_resp' = doc
         /\ html' = doc
         /\ pc' = "captcha_call"
         /\ UNCHANGED <<raised, auth_error>>
    /\ UNCHANGED <<captcha_attempt, captcha_text, captcha_doc, last_form,
                   post_resp, captcha_end, reqs>>
    /\ UNCHANGED bookVars
    /\ UNCHANGED pureVars

\* login(session): GET BASE_URL, POST the credentials, test the marker.
Login ==
    /\ pc = "login"
    /\ calls' = Count({"login"})
    /\ \E doc \in Pages(0) :
         /\ login_resp' = doc
         /\ IF ~doc.login
            THEN /\ AuthRaise("LoginFailed")
                 /\ UNCHANGED html
            ELSE /\ html' = doc
                 /\ pc' = "captcha_call"
                 /\ UNCHANGED <<raised, auth_error>>
    /\ UNCHANGED <<captcha_attempt, captcha_text, captcha_doc, last_form,
                   post_resp, captcha_end, reqs>>
    /\ UNCHANGED bookVars
    /\ UNCHANGED pureVars

\* handle_captcha(session, html) is entered: the for loop starts at attempt 1,
\* or is skipped when range(1, MAX_CAPTCHA_RETRIES + 1) is empty.  The frame of
\* login is gone.
CaptchaCall ==
    /\ pc = "captcha_call"
    /\ login_resp' = NoDoc
    /\ calls' = Count({"handle_captcha"})
    /\ IF MAX_CAPTCHA_RETRIES >= 1
       THEN /\ captcha_attempt' = 1
            /\ pc' = "captcha"
            /\ UNCHANGED <<raised, auth_error, captcha_end>>
       ELSE /\ AuthRaise("CaptchaExhausted")
            /\ captcha_end' = "exhausted"
            /\ UNCHANGED captcha_attempt
    /\ UNCHANGED <<html, captcha_text, captcha_doc, last_form, post_resp, reqs>>
    /\ UNCHANGED bookVars
    /\ UNCHANGED pureVars

\* `continue`, or the end of the loop body: the next value of range(1, MAX + 1).
\* When the range is exhausted the statement after the loop raises.
NextIteration ==
    IF captcha_attempt < MAX_CAPTCHA_RETRIES
    THEN /\ captcha_attempt' = captcha_attempt + 1
         /\ pc' = "captcha"
         /\ UNCHANGED <<raised, auth_error, captcha_end>>
    ELSE /\ AuthRaise("CaptchaExhausted")
         /\ captcha_end' = "exhausted"
         /\ UNCHANGED captcha_attempt

\* `raise BookingError(...)` inside the loop.
CaptchaRaise(kind, how) ==
    /\ AuthRaise(kind)
    /\ captcha_end' = how
    /\ UNCHANGED <<html, captcha_attempt>>

\* `return` from handle_captcha.
CaptchaReturn(how) ==
    /\ captcha_end' = how
    /\ pc' = "captcha_done"
    /\ UNCHANGED <<html, captcha_attempt, raised, auth_error>>

\* Mutant of FollowStartLink: following the link does not use up an iteration.
FollowStartLinkFree ==
    /\ \E doc \in CaptchaPages(captcha_attempt) : html' = doc
    /\ pc' = "captcha"
    /\ UNCHANGED <<captcha_attempt, raised, auth_error, captcha_end>>

\* new_resp = session.get(urljoin(BASE_URL, start_link.group(1)));
\* html = new_resp.text; continue.
FollowStartLink ==
    /\ \E doc \in CaptchaPages(captcha_attempt) : html' = doc
    /\ NextIteration

\* html = session.get(BASE_URL).text, then the next iteration.
RefetchBase ==
    /\ \E doc \in CaptchaPages(captcha_attempt) : html' = doc
    /\ NextIteration

\* Mutant of NoImageBranch: the "Schnellübersicht" marker is tested first.
NoImageBranchOverviewFirst ==
    IF html.overview
    THEN /\ CaptchaReturn("overview")
         /\ UNCHANGED reqs
    ELSE IF html.start_text
         THEN IF html.start_link
              THEN /\ FollowStartLink
                   /\ reqs' = Did({"follow"})
              ELSE /\ CaptchaReturn("no_start_link")
                   /\ UNCHANGED reqs
         ELSE /\ CaptchaRaise("CaptchaNotFound", "not_found")
              /\ UNCHANGED reqs

\* Lines 45-60: the document carries no captcha image.
NoImageBranch ==
    IF html.start_text
    THEN IF html.start_link
         THEN /\ FollowStartLink
              /\ reqs' = Did({"follow"})
         ELSE /\ CaptchaReturn("no_start_link")
              /\ UNCHANGED reqs
    ELSE IF html.overview
         THEN /\ CaptchaReturn("overview")
              /\ UNCHANGED reqs
         ELSE /\ CaptchaRaise("CaptchaNotFound", "not_found")
              /\ UNCHANGED reqs

CaptchaNoImage ==
    /\ pc = "captcha"
    /\ ~html.img
    /\ NoImageBranch
    /\ UNCHANGED <<captcha_text, captcha_doc, last_form, post_resp, calls,
                   login_resp>>
    /\ UNCHANGED bookVars
    /\ UNCHANGED pureVars

\* Lines 62-70: the OCR result is empty or shorter than 4 characters.
ShortOcrBranch(len) ==
    /\ captcha_text' = len
    /\ captcha_doc' = html.id
    /\ reqs' = Did({"solve_captcha", "base_get"})
    /\ RefetchBase
    /\ UNCHANGED <<last_form, post_resp>>

CaptchaOcrShort ==
    /\ pc = "captcha"
    /\ html.img
    /\ \E len \in 0..MaxOcrLen :
         /\ TooShort(len)
         /\ ShortOcrBranch(len)
    /\ UNCHANGED <<calls, login_resp>>
    /\ UNCHANGED bookVars
    /\ UNCHANGED pureVars

\* Mutant of NoTokenBranch: a missing token is treated like a rejected captcha.
NoTokenRetry(len) ==
    /\ captcha_text' = len
    /\ captcha_doc' = html.id
    /\ reqs' = Did({"solve_captcha", "token_search", "base_get"})
    /\ RefetchBase
    /\ UNCHANGED <<last_form, post_resp>>

\* Lines 72-77: the document has no sform_token field.
NoTokenBranch(len) ==
    /\ captcha_text' = len
    /\ captcha_doc' = html.id
    /\ reqs' = Did({"solve_captcha", "token_search"})
    /\ CaptchaRaise("TokenNotFound", "no_token")
    /\ UNCHANGED <<last_form, post_resp>>

CaptchaNoToken ==
    /\ pc = "captcha"
    /\ html.img
    /\ \E len \in 0..MaxOcrLen :
         /\ ~TooShort(len)
         /\ ~html.token
         /\ NoTokenBranch(len)
    /\ UNCHANGED <<calls, login_resp>>
    /\ UNCHANGED bookVars
    /\ UNCHANGED pureVars

\* Mutant of ClassifyResponse: the "Schnellübersicht" marker is tested before
\* the text "Neue Platzreservierung starten".
ClassifyResponseOverviewFirst(resp) ==
    IF resp.erfolg
    THEN /\ CaptchaReturn("erfolg")
         /\ IF resp.weiter
            THEN reqs' = Did({"solve_captcha", "token_search", "submit", "weiter_get"})
            ELSE reqs' = Did({"solve_captcha", "token_search", "submit"})
    ELSE IF resp.overview
    THEN /\ CaptchaReturn("overview")
         /\ reqs' = Did({"solve_captcha", "token_search", "submit"})
    ELSE IF resp.start_text
    THEN IF resp.start_link
         THEN /\ FollowStartLink
              /\ reqs' = Did({"solve_captcha", "token_search", "submit", "follow"})
         ELSE /\ CaptchaReturn("no_start_link")
              /\ reqs' = Did({"solve_captcha", "token_search", "submit"})
    ELSE /\ RefetchBase
         /\ reqs' = Did({"solve_captcha", "token_search", "submit", "base_get"})

\* Lines 92-116: what handle_captcha does with the response to the form POST.
ClassifyResponse(resp) ==
    IF resp.erfolg
    THEN /\ CaptchaReturn("erfolg")
         /\ IF resp.weiter
            THEN reqs' = Did({"solve_captcha", "token_search", "submit", "weiter_get"})
            ELSE reqs' = Did({"solve_captcha", "token_search", "submit"})
    ELSE IF resp.start_text
    THEN IF resp.start_link
         THEN /\ FollowStartLink
              /\ reqs' = Did({"solve_captcha", "token_search", "submit", "follow"})
         ELSE /\ CaptchaReturn("no_start_link")
              /\ reqs' = Did({"solve_captcha", "token_search", "submit"})
    ELSE IF resp.overview
    THEN /\ CaptchaReturn("overview")
         /\ reqs' = Did({"solve_captcha", "token_search", "submit"})
    ELSE /\ RefetchBase
         /\ reqs' = Did({"solve_captcha", "token_search", "submit", "base_get"})

\* Lines 72-90: the token is read from the current document and the form is
\* POSTed with it and the recognised text.
SubmitBranch(len) ==
    /\ captcha_text' = len
    /\ captcha_doc' = html.id
    /\ last_form' = [sform_token |-> TokenOf(html), image_of |-> html.id,
                     captcha |-> len]
    /\ \E resp \in PostResponses :
         /\ post_resp' = resp
         /\ ClassifyResponse(resp)

CaptchaSubmit ==
    /\ pc = "captcha"
    /\ html.img
    /\ \E len \in 0..MaxOcrLen :
         /\ ~TooShort(len)
         /\ html.token
         /\ SubmitBranch(len)
    /\ UNCHANGED <<calls, login_resp>>
    /\ UNCHANGED bookVars
    /\ UNCHANGED pureVars

\* Lines 32-35: handle_captcha has returned None; nothing of its frame is
\* visible to execute_booking, which starts its retry loop with attempt = 1.
StartRetryLoop ==
    /\ pc = "captcha_done"
    /\ pc' = "find"
    /\ attempt' = 1
    /\ last_error' = None
    /\ html' = NoDoc
    /\ captcha_attempt' = 0
    /\ captcha_text' = -1
    /\ captcha_doc' = -1
    /\ last_form' = NoForm
    /\ post_resp' = NoResp
    /\ captcha_end' = ""
    /\ reqs' = NoReqs
    /\ UNCHANGED <<calls, timeslot_href, seat_href, seat_desc, stages, outcomes,
                   auth_error, raised, result, login_resp>>
    /\ UNCHANGED pureVars

\* The exceptions the three stages raise (core/reservation.py); "Other" is any
\* other exception that leaves a stage (a network error, a parse error):
\* `except Exception` catches them all.
FindErrors == {"NoSlotsForDate", "SlotNotFound", "Other"}

SelectErrors == {"SlotUnavailable", "NoSeatsAvailable"}

ReserveErrors == {"ReservationFailed"}

authFrame == <<login_resp, html, captcha_attempt, captcha_text, captcha_doc,
               last_form, post_resp, captcha_end, reqs>>

\* One entry of the call log.
Call(fn, arg, ret) == [fn |-> fn, attempt |-> attempt, arg |-> arg, ret |-> ret]

\* Mutant of AttemptFailed: the retry starts over with a new login.
AttemptFailedReauth(e, called, arg) ==
    /\ last_error' = e
    /\ outcomes' = Append(outcomes, e.kind)
    /\ stages' = Append(stages, Call(called, arg, NoLink))
    /\ IF attempt < RETRIES
       THEN /\ calls' = Count({called, "sleep"})
            /\ attempt' = attempt + 1
            /\ pc' = "login"
            /\ UNCHANGED raised
       ELSE /\ calls' = Count({called})
            /\ pc' = "raised"
            /\ raised' = last_error'
            /\ UNCHANGED attempt

\* Mutant of AttemptFailed: the sleep is guarded by attempt < RETRIES - 1.
AttemptFailedSleepOffByOne(e, called, arg) ==
    /\ last_error' = e
    /\ outcomes' = Append(outcomes, e.kind)
    /\ stages' = Append(stages, Call(called, arg, NoLink))
    /\ IF attempt < RETRIES
       THEN /\ calls' = IF attempt < RETRIES - 1
                        THEN Count({called, "sleep"})
                        ELSE Count({called})
            /\ attempt' = attempt + 1
            /\ pc' = "find"
            /\ UNCHANGED raised
       ELSE /\ calls' = Count({called})
            /\ pc' = "raised"
            /\ raised' = last_error'
            /\ UNCHANGED attempt

\* Mutant of AttemptFailed: last_error keeps the first error instead of the last.
AttemptFailedFirstError(e, called, arg) ==
    /\ last_error' = IF last_error = None THEN e ELSE last_error
    /\ outcomes' = Append(outcomes, e.kind)
    /\ stages' = Append(stages, Call(called, arg, NoLink))
    /\ IF attempt < RETRIES
       THEN /\ calls' = Count({called, "sleep"})
            /\ attempt' = attempt + 1
            /\ pc' = "find"
            /\ UNCHANGED raised
       ELSE /\ calls' = Count({called})
            /\ pc' = "raised"
            /\ raised' = last_error'
            /\ UNCHANGED attempt

\* Mutant of AttemptFailed: the loop retries until an attempt succeeds (the
\* bookkeeping is held at its values after one failure, so that retrying for
\* ever is a cycle of states).
AttemptFailedForever(e, called, arg) ==
    /\ last_error' = e
    /\ outcomes' = <<e.kind>>
    /\ stages' = <<Call(called, arg, NoLink)>>
    /\ calls' = [calls EXCEPT ![called] = 1, !["sleep"] = 1]
    /\ attempt' = 1
    /\ pc' = "find"
    /\ UNCHANGED raised

\* Lines 46-54: the except clause, and `raise last_error` once the loop is over.
\* `called` is the stage whose invocation raised, `arg` its argument.
AttemptFailed(e, called, arg) ==
    /\ last_error' = e
    /\ outcomes' = Append(outcomes, e.kind)
    /\ stages' = Append(stages, Call(called, arg, NoLink))
    /\ IF attempt < RETRIES
       THEN /\ calls' = Count({called, "sleep"})
            /\ attempt' = attempt + 1
            /\ pc' = "find"
            /\ UNCHANGED raised
       ELSE /\ calls' = Count({called})
            /\ pc' = "raised"
            /\ raised' = last_error'
            /\ UNCHANGED attempt

\* Mutant of FindTimeslot: a link found by an earlier attempt is kept and the
\* listing is not fetched again.
FindTimeslotCached ==
    /\ pc = "find"
    /\ IF timeslot_href # NoLink
       THEN /\ pc' = "select"
            /\ UNCHANGED <<timeslot_href, calls, stages, attempt, outcomes,
                           last_error, raised>>
       ELSE \/ \E i \in 1..NumLinks :
                 /\ timeslot_href' = [kind |-> "timeslot", at |-> attempt, id |-> i]
                 /\ calls' = Count({"find_timeslot"})
                 /\ stages' = Append(stages,
                                     Call("find_timeslot", NoLink, timeslot_href'))
                 /\ pc' = "select"
                 /\ UNCHANGED <<attempt, outcomes, last_error, raised>>
            \/ \E k \in FindErrors :
                 /\ AttemptFailed([kind |-> k, at |-> attempt], "find_timeslot", NoLink)
                 /\ UNCHANGED timeslot_href
    /\ UNCHANGED <<seat_href, seat_desc, result, auth_error>>
    /\ UNCHANGED authFrame
    /\ UNCHANGED pureVars

\* Line 37: find_timeslot fetches the slot listing and returns a link or raises.
FindTimeslot ==
    /\ pc = "find"
    /\ \/ \E i \in 1..NumLinks :
            /\ timeslot_href' = [kind |-> "timeslot", at |-> attempt, id |-> i]
            /\ calls' = Count({"find_timeslot"})
            /\ stages' = Append(stages, Call("find_timeslot", NoLink, timeslot_href'))
            /\ pc' = "select"
            /\ UNCHANGED <<attempt, outcomes, last_error, raised>>
       \/ \E k \in FindErrors :
            /\ AttemptFailed([kind |-> k, at |-> attempt], "find_timeslot", NoLink)
            /\ UNCHANGED timeslot_href
    /\ UNCHANGED <<seat_href, seat_desc, result, auth_error>>
    /\ UNCHANGED authFrame
    /\ UNCHANGED pureVars

\* Line 39: select_seat(session, timeslot_href) returns (seat_href, seat_desc).
SelectSeat ==
    /\ pc = "select"
    /\ \/ \E i \in 1..NumLinks :
            /\ seat_href' = [kind |-> "seat", at |-> attempt, id |-> i]
            /\ seat_desc' = [kind |-> "desc", at |-> attempt, id |-> i]
            /\ calls' = Count({"select_seat"})
            /\ stages' = Append(stages, Call("select_seat", timeslot_href, seat_href'))
            /\ pc' = "reserve"
            /\ UNCHANGED <<attempt, outcomes, last_error, raised>>
       \/ \E k \in SelectErrors :
            /\ AttemptFailed([kind |-> k, at |-> attempt], "select_seat", timeslot_href)
            /\ UNCHANGED <<seat_href, seat_desc>>
    /\ UNCHANGED <<timeslot_href, result, auth_error>>
    /\ UNCHANGED authFrame
    /\ UNCHANGED pureVars

\* Lines 40-45: reserve_seat(session, seat_href) returns the details, and the
\* success record is returned, or it raises.
ReserveSeat ==
    /\ pc = "reserve"
    /\ \/ \E i \in 1..NumLinks :
            LET details == [kind |-> "details", at |-> attempt, id |-> i] IN
            /\ result' = [success |-> TRUE, seat_desc |-> seat_desc,
                          message |-> details]
            /\ calls' = Count({"reserve_seat"})
            /\ stages' = Append(stages, Call("reserve_seat", seat_href, details))
            /\ outcomes' = Append(outcomes, "ok")
            /\ pc' = "returned"
            /\ UNCHANGED <<attempt, last_error, raised>>
       \/ \E k \in ReserveErrors :
            /\ AttemptFailed([kind |-> k, at |-> attempt], "reserve_seat", seat_href)
            /\ UNCHANGED result
    /\ UNCHANGED <<timeslot_href, seat_href, seat_desc, auth_error>>
    /\ UNCHANGED authFrame
    /\ UNCHANGED pureVars

Next ==
    \/ Login
    \/ CaptchaCall
    \/ CaptchaNoImage
    \/ CaptchaOcrShort
    \/ CaptchaNoToken
    \/ CaptchaSubmit
    \/ StartRetryLoop
    \/ FindTimeslot
    \/ SelectSeat
    \/ ReserveSeat

Spec == Init /\ [][Next]_vars

\* Every HTTP exchange and OCR call returns, so the run always takes its next step.
FairSpec == Spec /\ WF_vars(Next)

Done == pc \in {"returned", "raised"}

\* No run of execute_booking is being looked at.
BookingIdle ==
    /\ pc = "idle"
    /\ login_resp = NoDoc
    /\ html = NoDoc
    /\ captcha_attempt = 0
    /\ captcha_text = -1
    /\ captcha_doc = -1
    /\ last_form = NoForm
    /\ post_resp = NoResp
    /\ captcha_end = ""
    /\ reqs = NoReqs
    /\ calls = [k \in CallKinds |-> 0]
    /\ attempt = 0
    /\ timeslot_href = NoLink
    /\ seat_href = NoLink
    /\ seat_desc = NoLink
    /\ stages = <<>>
    /\ outcomes = <<>>
    /\ last_error = None
    /\ auth_error = None
    /\ raised = None
    /\ result = NoResult

bookingVars == <<pc, login_resp, html, captcha_attempt, captcha_text, captcha_doc,
                 last_form, post_resp, captcha_end, reqs, calls, attempt,
                 timeslot_href, seat_href, seat_desc, stages, outcomes, last_error,
                 auth_error, raised, result>>

(***************************************************************************)
(* Schedule translator (core/scheduler.py, _target_days_to_trigger_days)   *)
(***************************************************************************)

\* Longest target_days list (number of comma-separated tokens).
MaxTokens == 2

\* date_offset ranges over -MaxOffset..MaxOffset.
MaxOffset == 8

\* Line 19: DAY_NAMES.
DAY_NAMES == <<"mon", "tue", "wed", "thu", "fri", "sat", "sun">>

DayNameSet == {DAY_NAMES[i] : i \in 1..7}

\* Line 20: DAY_INDEX[name], mon = 0 ... sun = 6.
DAY_INDEX(name) == (CHOOSE i \in 1..7 : DAY_NAMES[i] = name) - 1

\* One piece of target_days.split(","): a text written either plainly (lower
\* case, no surrounding blanks, as "tue") or decorated (upper case and blanks
\* around it, as " TUE ").  The texts "xyz" and "" are no weekday names.
Tokens == [text : DayNameSet \cup {"xyz", ""}, form : {"plain", "decorated"}]

\* Line 32: day.strip().lower()
StripLower(tok) == [text |-> tok.text, form |-> "plain"]

\* Line 33: `day in DAY_INDEX`, a comparison of the string as it is written.
InDayIndex(tok) == tok.form = "plain" /\ tok.text \in DayNameSet

\* Mutant of TriggerIdx: the offset is added.
TriggerIdxPlus(d, date_offset) == (d + date_offset) % 7

\* Mutant of TriggerIdx: no wrap-around below Monday.
TriggerIdxSaturating(d, date_offset) ==
    IF d - date_offset < 0 THEN 0 ELSE (d - date_offset) % 7

\* Line 35: (DAY_INDEX[day] - date_offset) % 7; Python's % with a positive
\* modulus yields a value in 0..6, as TLA+'s does.
TriggerIdx(d, date_offset) == (d - date_offset) % 7

\* Line 37: the value returned when no token was a weekday name.
DefaultDays == <<"mon", "tue", "wed", "thu", "fri">>

\* Mutant of TargetDaysToTriggerDays: the trigger days are returned as a set,
\* in the order of DAY_NAMES.
TargetDaysToTriggerDaysSorted(target_days, date_offset) ==
    LET days == [i \in 1..Len(target_days) |-> StripLower(target_days[i])]
        known == SelectSeq(days, InDayIndex)
        idx == {TriggerIdx(DAY_INDEX(known[i].text), date_offset) : i \in 1..Len(known)}
        InIdx(name) == DAY_INDEX(name) \in idx
        trigger == SelectSeq(DAY_NAMES, InIdx)
    IN  IF trigger # <<>> THEN trigger ELSE DefaultDays

\* Lines 30-37: the list `trigger` (joined with "," by the return statement),
\* for target_days given as its tokens.
TargetDaysToTriggerDays(target_days, date_offset) ==
    LET days == [i \in 1..Len(target_days) |-> StripLower(target_days[i])]
        known == SelectSeq(days, InDayIndex)
        trigger == [i \in 1..Len(known) |->
                       DAY_NAMES[TriggerIdx(DAY_INDEX(known[i].text), date_offset) + 1]]
    IN  IF trigger # <<>> THEN trigger ELSE DefaultDays

\* split(",") of a string of weekday names joined with ",".
SplitDays(names) == [i \in 1..Len(names) |-> [text |-> names[i], form |-> "plain"]]

TargetDayLists == UNION {[1..n -> Tokens] : n \in 1..MaxTokens}

InitTranslate ==
    /\ BookingIdle
    /\ RegistryIdle
    /\ JobsIdle
    /\ RunsIdle
    /\ CronIdle
    /\ DateIdle
    /\ RaceIdle
    /\ tr_in \in [target_days : TargetDayLists, date_offset : -MaxOffset..MaxOffset]
    /\ tr_out = [returned |-> FALSE, raised |-> FALSE, days |-> <<>>]
    /\ tr_back = [returned |-> FALSE, raised |-> FALSE, days |-> <<>>]
    /\ FindIdle
    /\ SelectIdle
    /\ ReserveIdle

\* _target_days_to_trigger_days(target_days, date_offset) is called; the
\* function has no raise statement.
TranslateCall ==
    /\ ~tr_out.returned
    /\ tr_out' = [returned |-> TRUE, raised |-> FALSE,
                  days |-> TargetDaysToTriggerDays(tr_in.target_days,
                                                   tr_in.date_offset)]
    /\ UNCHANGED <<tr_in, tr_back>>
    /\ UNCHANGED <<ftVars, ssVars, rsVars>>
    /\ UNCHANGED <<sjVars, jobVars, runVars, cronVars, dateVars, raceVars>>
    /\ UNCHANGED bookingVars

\* The returned string is translated again, with the opposite offset.
TranslateBack ==
    /\ tr_out.returned
    /\ ~tr_back.returned
    /\ tr_back' = [returned |-> TRUE, raised |-> FALSE,
                   days |-> TargetDaysToTriggerDays(SplitDays(tr_out.days),
                                                    -tr_in.date_offset)]
    /\ UNCHANGED <<tr_in, tr_out>>
    /\ UNCHANGED <<ftVars, ssVars, rsVars>>
    /\ UNCHANGED <<sjVars, jobVars, runVars, cronVars, dateVars, raceVars>>
    /\ UNCHANGED bookingVars

NextTranslate == TranslateCall \/ TranslateBack

SpecTranslate == InitTranslate /\ [][NextTranslate]_vars

(***************************************************************************)
(* A recurring job from its registration to its target date                *)
(* (core/scheduler.py, schedule_job and run_booking_job)                   *)
(***************************************************************************)

\* Line 52 reads the date with datetime.now(), the clock of the process in
\* its own time zone, while the trigger of lines 108-113 fires by the clock
\* of Europe/Berlin.  At the instant of firing the date of the process is the
\* date in Berlin, the day before it (a zone west of Berlin, as UTC, and a run
\* time early in the day) or the day after it (a zone east of Berlin and a run
\* time late in the day).
LocalDayShifts == {-1, 0, 1}

\* The columns of a recurring job that lines 102-113 and 51-52 read:
\* cron_days with valid weekday names, and a date_offset that is not NULL.
CronJobs ==
    [cron_days : UNION {[1..n -> DayNameSet] : n \in 1..MaxTokens},
     date_offset : 0..6,
     local_day : LocalDayShifts]

\* Nothing registered, nothing fired; weekdays are indices, -1 is none.
CronNew == [pc |-> "new", trigger_days |-> <<>>, fired |-> -1, target |-> -1]

InitCron ==
    /\ BookingIdle
    /\ TranslateIdle
    /\ FindIdle
    /\ SelectIdle
    /\ ReserveIdle
    /\ RegistryIdle
    /\ JobsIdle
    /\ RunsIdle
    /\ DateIdle
    /\ RaceIdle
    /\ cron_in \in CronJobs
    /\ cron_out = CronNew

cronFrame ==
    /\ UNCHANGED <<trVars, ftVars, ssVars, rsVars, sjVars, jobVars, runVars, dateVars,
                   raceVars>>
    /\ UNCHANGED bookingVars

\* Lines 102-113: schedule_job translates cron_days with
\* `job.get("date_offset", 2) or 0` and registers the cron trigger.
CronSchedule ==
    /\ cron_out.pc = "new"
    /\ cron_out' = [cron_out EXCEPT
                      !.pc = "scheduled",
                      !.trigger_days = TargetDaysToTriggerDays(SplitDays(cron_in.cron_days),
                                                               cron_in.date_offset)]
    /\ UNCHANGED cron_in
    /\ cronFrame

\* The trigger fires on a weekday of day_of_week, by the clock of
\* Europe/Berlin (lines 108-113).
CronFire ==
    /\ cron_out.pc = "scheduled"
    /\ \E k \in 1..Len(cron_out.trigger_days) :
          cron_out' = [cron_out EXCEPT !.pc = "fired",
                                       !.fired = DAY_INDEX(cron_out.trigger_days[k])]
    /\ UNCHANGED cron_in
    /\ cronFrame

\* Lines 51-52: the weekday of (datetime.now() + timedelta(days=date_offset)).
CronRun ==
    /\ cron_out.pc = "fired"
    /\ cron_out' = [cron_out EXCEPT
                      !.pc = "ran",
                      !.target = (cron_out.fired + cron_in.local_day
                                    + cron_in.date_offset) % 7]
    /\ UNCHANGED cron_in
    /\ cronFrame

NextCron == CronSchedule \/ CronFire \/ CronRun

SpecCron == InitCron /\ [][NextCron]_vars

(***************************************************************************)
(* Timeslot resolver (core/reservation.py, find_timeslot)                  *)
(***************************************************************************)

\* Most rows with a slot link in the fetched listing.
MaxRows == 2

\* A text is the set of words it contains and the case it is written in; the
\* empty text contains no word.
NoText == [words |-> {}, upper |-> FALSE]

\* str.lower()
Lower(text) == [words |-> text.words, upper |-> FALSE]

\* `keyword in text`, a comparison of the characters as they are written.
Contains(text, keyword) ==
    /\ keyword.words \subseteq text.words
    /\ keyword.words # {} => keyword.upper = text.upper

\* Line 11: the keyword imported from config, written with capitals there.
GROUP_ROOM_SECTION_KEYWORD == [words |-> {"gruppe"}, upper |-> TRUE]

\* Lines 60-61: the text of the nearest preceding <h2>, "" if there is none.
Sections ==
    { NoText,
      [words |-> {"lesesaal"}, upper |-> TRUE],
      [words |-> {"gruppe"}, upper |-> FALSE],
      [words |-> {"gruppe", "lesesaal"}, upper |-> TRUE] }

\* A <tr> with a link whose href contains "reservationtimeslot_id=" (other
\* links are skipped by lines 43-48).  What the loop reads from it:
\*   date        the literal target date is in the row text (line 52)
\*   range       the first match of \d{2}:\d{2}–\d{2}:\d{2} in the row text
\*               (line 55): none, the requested range, or another range
\*   has_target  f"{start_time}–{end_time}" is in the row text (line 70)
\*   section     the text of the nearest preceding <h2>
\* The href and the numeric slot id of a row are its position in the document.
\* Rows without the date differ in their section only.
Rows ==
    { r \in [date : BOOLEAN, range : {"none", "target", "other"},
             has_target : BOOLEAN, section : Sections] :
        /\ r.range = "target" => r.has_target
        /\ ~r.date => r.range = "target" }

Listings == UNION {[1..n -> Rows] : n \in 0..MaxRows}

\* The arguments group_room and preferred_section; target_date and
\* target_time (a start and an end joined by "-") are what the rows' date and
\* has_target fields are relative to.
Requests ==
    [group_room : BOOLEAN,
     preferred_section : {NoText,
                          [words |-> {"lesesaal"}, upper |-> FALSE],
                          [words |-> {"lesesaal"}, upper |-> TRUE]}]

\* Mutant of KindMatches: rows are not filtered by room kind.
KindMatchesAny(section, group_room) == TRUE

\* Lines 62-64: is_group_section, and the test that keeps the row.
KindMatches(section, group_room) ==
    group_room = Contains(Lower(section), Lower(GROUP_ROOM_SECTION_KEYWORD))

\* Lines 52-64: the row passes the date test and the room-kind filter.
Kept(row, group_room) == row.date /\ KindMatches(row.section, group_room)

\* Mutant of AvailableSlots: rows without a parseable time range are listed too.
AvailableSlotsUnparsed(doc, group_room) ==
    LET keep(i) == Kept(doc[i], group_room)
        idx == SelectSeq([i \in 1..Len(doc) |-> i], keep)
    IN  [k \in 1..Len(idx) |->
            [slot_time |-> doc[idx[k]].range, slot_id |-> idx[k],
             section |-> doc[idx[k]].section, href |-> idx[k]]]

\* Lines 66-68: available_slots after the loop.
AvailableSlots(doc, group_room) ==
    LET keep(i) == Kept(doc[i], group_room) /\ doc[i].range # "none"
        idx == SelectSeq([i \in 1..Len(doc) |-> i], keep)
    IN  [k \in 1..Len(idx) |->
            [slot_time |-> doc[idx[k]].range, slot_id |-> idx[k],
             section |-> doc[idx[k]].section, href |-> idx[k]]]

\* Lines 70-73: matching_slots after the loop.
MatchingSlots(doc, group_room) ==
    LET keep(i) == Kept(doc[i], group_room) /\ doc[i].has_target
        idx == SelectSeq([i \in 1..Len(doc) |-> i], keep)
    IN  [k \in 1..Len(idx) |->
            [slot_id |-> idx[k], section |-> doc[idx[k]].section, href |-> idx[k]]]

\* Mutant of InPreferredSection: the keyword is compared as it is written.
InPreferredSectionCaseSensitive(slot, preferred_section) ==
    Contains(slot.section, preferred_section)

\* Lines 78-79: pref_lower in s[1].lower()
InPreferredSection(slot, preferred_section) ==
    Contains(Lower(slot.section), Lower(preferred_section))

NoMessage == [prefix |-> "", available |-> <<>>]

\* Mutant of NoSlotsMessage: the message of the other error, with nothing listed.
NoSlotsMessageSame == [prefix |-> "No slot matching time", available |-> <<>>]

\* Line 96: f"No slots found for date {date_ddmmyyyy}. Check if ..."
NoSlotsMessage == [prefix |-> "No slots found for date", available |-> <<>>]

\* Lines 92-94: f"No slot matching time '{target_time}' found for ... Available: "
\* followed by "{t} (ID={sid}) {sec}" for each entry of available_slots.
SlotNotFoundMessage(available_slots) ==
    [prefix |-> "No slot matching time",
     available |-> [k \in 1..Len(available_slots) |->
                       [t |-> available_slots[k].slot_time,
                        sid |-> available_slots[k].slot_id,
                        sec |-> available_slots[k].section]]]

\* `return href`
Returns(href) ==
    [returned |-> TRUE, href |-> href, raised |-> "", message |-> NoMessage]

\* `raise BookingError(message)`; core/exceptions.py has this one class.
Raises(message) ==
    [returned |-> FALSE, href |-> 0, raised |-> "BookingError", message |-> message]

\* The call has not ended.
Pending == [returned |-> FALSE, href |-> 0, raised |-> "", message |-> NoMessage]

\* Mutant of find_timeslot: without a matching slot the no-slots-for-date
\* error is raised, whatever else the date offers.
find_timeslot_date_error_only(doc, req) ==
    LET matching_slots == MatchingSlots(doc, req.group_room)
        pref(s) == InPreferredSection(s, req.preferred_section)
        preferred == SelectSeq(matching_slots, pref)
    IN  IF matching_slots # <<>>
        THEN IF req.preferred_section # NoText /\ preferred # <<>>
             THEN Returns(preferred[1].href)
             ELSE Returns(matching_slots[1].href)
        ELSE Raises(NoSlotsMessage)

\* Lines 38-96 on the parsed listing: the link returned or the error raised.
\* An empty preferred_section is falsy.
find_timeslot(doc, req) ==
    LET available_slots == AvailableSlots(doc, req.group_room)
        matching_slots == MatchingSlots(doc, req.group_room)
        pref(s) == InPreferredSection(s, req.preferred_section)
        preferred == SelectSeq(matching_slots, pref)
    IN  IF matching_slots # <<>>
        THEN IF req.preferred_section # NoText /\ preferred # <<>>
             THEN Returns(preferred[1].href)
             ELSE Returns(matching_slots[1].href)
        ELSE IF available_slots # <<>>
             THEN Raises(SlotNotFoundMessage(available_slots))
             ELSE Raises(NoSlotsMessage)

InitFind ==
    /\ BookingIdle
    /\ RegistryIdle
    /\ JobsIdle
    /\ RunsIdle
    /\ CronIdle
    /\ DateIdle
    /\ RaceIdle
    /\ TranslateIdle
    /\ SelectIdle
    /\ ReserveIdle
    /\ ft_doc \in Listings
    /\ ft_req \in Requests
    /\ ft_out = Pending

\* find_timeslot(session, library_id, target_date, target_time, group_room,
\* preferred_section) runs on the listing the GET of line 30 returned.
FindTimeslotCall ==
    /\ ft_out = Pending
    /\ ft_out' = find_timeslot(ft_doc, ft_req)
    /\ UNCHANGED <<ft_doc, ft_req>>
    /\ UNCHANGED <<trVars, ssVars, rsVars>>
    /\ UNCHANGED <<sjVars, jobVars, runVars, cronVars, dateVars, raceVars>>
    /\ UNCHANGED bookingVars

NextFind == FindTimeslotCall

SpecFind == InitFind /\ [][NextFind]_vars

(***************************************************************************)
(* Seat selector (core/reservation.py, select_seat)                        *)
(***************************************************************************)

\* Most <a href> links in the slot-detail document.
MaxSeats == 2

\* Longest preference list.
MaxPrefs == 2

\* Seat/room numbers written in descriptions; preference lists may also name
\* a number no description carries.
SeatNumbers == 1..2

PrefNumbers == SeatNumbers \cup {3}

\* An <a href> of the document.  What select_seat reads from it:
\*   seat  "seat_id=" is in the href (line 114)
\*   num   the number re.search(r"(?:Platz|Kabine|Raum)\s+(\d+)", desc) finds
\*         in the description built by lines 117-121, 0 if it finds none
\* The href and the description of a link are its position in the document;
\* seat ids are numeric.  The description of a link without "seat_id=" is
\* never read.
Links ==
    { l \in [seat : BOOLEAN, num : {0} \cup SeatNumbers] : ~l.seat => l.num = 0 }

\* The slot-detail document: the "Reservierung möglich?" field (absent, or
\* present with the value "Ja" or "Nein"), whether the text "Nein" occurs
\* anywhere else in the document, and the links.
SlotDetails ==
    { d \in [field : {"absent", "Ja", "Nein"}, nein_elsewhere : BOOLEAN,
             links : UNION {[1..n -> Links] : n \in 0..MaxSeats}] :
        d.field = "Nein" => ~d.nein_elsewhere }

PrefLists == UNION {[1..n -> PrefNumbers] : n \in 0..MaxPrefs}

ShortPrefLists == UNION {[1..n -> PrefNumbers] : n \in 0..1}

\* The argument group_room and the two lists imported from config (line 11);
\* the list the call does not use is a short one.
SelectRequests ==
    { q \in [group_room : BOOLEAN, PREFERRED_SEATS : PrefLists,
             PREFERRED_GROUP_ROOMS : PrefLists] :
        IF q.group_room THEN q.PREFERRED_SEATS \in ShortPrefLists
        ELSE q.PREFERRED_GROUP_ROOMS \in ShortPrefLists }

\* Line 107: "Reservierung möglich?" in resp.text and "Nein" in resp.text
Unavailable(doc) ==
    /\ doc.field # "absent"
    /\ doc.field = "Nein" \/ doc.nein_elsewhere

\* Mutant of SeatLinks: every link of the document is collected.
SeatLinksAny(doc) ==
    [k \in 1..Len(doc.links) |-> [href |-> k, num |-> doc.links[k].num, desc |-> k]]

\* Lines 111-122: seat_links, the links whose href contains "seat_id=".
SeatLinks(doc) ==
    LET seat(i) == doc.links[i].seat
        idx == SelectSeq([i \in 1..Len(doc.links) |-> i], seat)
    IN  [k \in 1..Len(idx) |->
            [href |-> idx[k], num |-> doc.links[idx[k]].num, desc |-> idx[k]]]

\* Lines 131-135: the keys of seat_by_number.
ParsedNumbers(seat_links) ==
    {seat_links[k].num : k \in 1..Len(seat_links)} \ {0}

\* Mutant of SeatByNumber: the first link with the number is kept.
SeatByNumberFirst(seat_links, n) ==
    LET first == CHOOSE k \in 1..Len(seat_links) :
                     /\ seat_links[k].num = n
                     /\ \A j \in 1..Len(seat_links) : seat_links[j].num = n => k <= j
    IN  seat_links[first]

\* Lines 132-135: seat_by_number[n]; a later link with the same number
\* replaces an earlier one.
SeatByNumber(seat_links, n) ==
    LET last == CHOOSE k \in 1..Len(seat_links) :
                    /\ seat_links[k].num = n
                    /\ \A j \in 1..Len(seat_links) : seat_links[j].num = n => j <= k
    IN  seat_links[last]

\* Mutant of PreferredSeat: the links are walked in document order and the
\* first one whose number is in the preference list is taken.
PreferredSeatDocumentOrder(seat_links, preferred_list) ==
    LET wanted(l) == \E i \in 1..Len(preferred_list) : preferred_list[i] = l.num
        hits == SelectSeq(seat_links, wanted)
    IN  IF hits # <<>> THEN hits[1] ELSE seat_links[1]

\* Lines 137-149: the entry of the first preferred number that is a key of
\* seat_by_number, or else seat_links[0]; seat_links is not empty.
PreferredSeat(seat_links, preferred_list) ==
    LET present(n) == n \in ParsedNumbers(seat_links)
        hits == SelectSeq(preferred_list, present)
    IN  IF hits # <<>> THEN SeatByNumber(seat_links, hits[1]) ELSE seat_links[1]

\* `return seat_href, desc`
SelectReturns(seat) ==
    [returned |-> TRUE, seat_href |-> seat.href, desc |-> seat.desc,
     raised |-> "", message |-> ""]

\* `raise BookingError(message)`
SelectRaises(message) ==
    [returned |-> FALSE, seat_href |-> 0, desc |-> 0,
     raised |-> "BookingError", message |-> message]

\* The call has not ended.
SelectPending ==
    [returned |-> FALSE, seat_href |-> 0, desc |-> 0, raised |-> "", message |-> ""]

\* Lines 101 and 125: f"No available {slot_type} found."
NoSeatsMessage(group_room) ==
    IF group_room THEN "No available group rooms found."
    ELSE "No available seats found."

\* Lines 104-149 on the fetched document.
select_seat(doc, req) ==
    IF Unavailable(doc)
    THEN SelectRaises("Reservation not possible for this time slot.")
    ELSE IF SeatLinks(doc) = <<>>
    THEN SelectRaises(NoSeatsMessage(req.group_room))
    ELSE SelectReturns(PreferredSeat(SeatLinks(doc),
                                     IF req.group_room THEN req.PREFERRED_GROUP_ROOMS
                                     ELSE req.PREFERRED_SEATS))

InitSelect ==
    /\ BookingIdle
    /\ RegistryIdle
    /\ JobsIdle
    /\ RunsIdle
    /\ CronIdle
    /\ DateIdle
    /\ RaceIdle
    /\ TranslateIdle
    /\ FindIdle
    /\ ReserveIdle
    /\ ss_doc \in SlotDetails
    /\ ss_req \in SelectRequests
    /\ ss_out = SelectPending

\* select_seat(session, timeslot_href, group_room) runs on the document the
\* GET of line 105 returned.
SelectSeatCall ==
    /\ ss_out = SelectPending
    /\ ss_out' = select_seat(ss_doc, ss_req)
    /\ UNCHANGED <<ss_doc, ss_req>>
    /\ UNCHANGED <<trVars, ftVars, rsVars>>
    /\ UNCHANGED <<sjVars, jobVars, runVars, cronVars, dateVars, raceVars>>
    /\ UNCHANGED bookingVars

NextSelect == SelectSeatCall

SpecSelect == InitSelect /\ [][NextSelect]_vars

(***************************************************************************)
(* Reservation finalizer (core/reservation.py, reserve_seat)               *)
(***************************************************************************)

\* Most lines in the second cell of a highlighted row.
MaxLines == 3

\* The lines td[1].get_text(separator="\n").split("\n") yields: a text, written
\* with or without blanks around it.  The empty text gives the empty line and
\* the line of blanks.
DetailLines ==
    { [text |-> "", padded |-> FALSE],
      [text |-> "", padded |-> TRUE],
      [text |-> "Kabine 12", padded |-> FALSE],
      [text |-> "08:00-12:00", padded |-> TRUE],
      [text |-> "Platz-Umtausch versuchen", padded |-> TRUE],
      [text |-> "Reservierung jetzt stornieren", padded |-> FALSE],
      [text |-> "Platz-Umtausch versuchen (2)", padded |-> FALSE],
      [text |-> "Platz-Umtausch möglich bis 10:00", padded |-> FALSE],
      [text |-> "Stornierung möglich bis 09:00", padded |-> TRUE] }

\* l.strip()
Strip(l) == l.text

\* `sub in line` for the texts of DetailLines.
Occurs(sub, line) ==
    \/ sub = line
    \/ sub = "Platz-Umtausch versuchen" /\ line = "Platz-Umtausch versuchen (2)"
    \/ sub = "Platz-Umtausch möglich" /\ line = "Platz-Umtausch möglich bis 10:00"
    \/ sub = "Stornierung möglich" /\ line = "Stornierung möglich bis 09:00"

\* A <tr> whose style contains "yellow": the number of its <td> cells and the
\* lines of the second one.
HighlightedRows ==
    { r \in [ncells : 1..2, lines : UNION {[1..n -> DetailLines] : n \in 0..MaxLines}] :
        r.ncells = 1 => r.lines = <<>> }

\* A second highlighted row, which the loop never reaches (line 173).
SecondRow == [ncells |-> 2, lines |-> <<[text |-> "Kabine 12", padded |-> FALSE]>>]

\* The response to the GET of the seat link:
\*   erfolg   "Erfolg" in resp.text
\*   bereits  how the word "bereits" is written in the text, "" if it is not there
\*   rows     the highlighted rows, in document order
\* The rows are read only if the success marker is there.
SeatResponses ==
    { r \in [erfolg : BOOLEAN, bereits : {"", "bereits", "Bereits"},
             rows : {<<>>} \cup {<<h>> : h \in HighlightedRows}
                           \cup {<<h, SecondRow>> : h \in HighlightedRows}] :
        ~r.erfolg => r.rows = <<>> }

\* str.lower() of the word.
LowerWord(w) == IF w = "Bereits" THEN "bereits" ELSE w

\* Mutant of HasBereits: the text is searched as it is written.
HasBereitsCaseSensitive(resp) == resp.bereits = "bereits"

\* Line 179: "bereits" in resp.text.lower()
HasBereits(resp) == LowerWord(resp.bereits) = "bereits"

\* Mutant of ExactBoilerplate: the two texts are searched for in the line.
ExactBoilerplateSubstring(line) ==
    \/ Occurs("Platz-Umtausch versuchen", line)
    \/ Occurs("Reservierung jetzt stornieren", line)

\* Line 168: line in ("Platz-Umtausch versuchen", "Reservierung jetzt stornieren")
ExactBoilerplate(line) ==
    line \in {"Platz-Umtausch versuchen", "Reservierung jetzt stornieren"}

\* Line 170: "Platz-Umtausch möglich" in line or "Stornierung möglich" in line
ContainsBoilerplate(line) ==
    \/ Occurs("Platz-Umtausch möglich", line)
    \/ Occurs("Stornierung möglich", line)

\* Lines 162-173: `details` after the loop over the highlighted rows, which
\* ends after the first row.
Details(rows) ==
    IF rows = <<>> \/ rows[1].ncells < 2
    THEN <<>>
    ELSE LET stripped == [i \in 1..Len(rows[1].lines) |-> Strip(rows[1].lines[i])]
             nonempty(l) == l # ""
             lines == SelectSeq(stripped, nonempty)
             keep(line) == ~ExactBoilerplate(line) /\ ~ContainsBoilerplate(line)
         IN  SelectSeq(lines, keep)

\* Lines 174-176: `return detail_str`, the details joined with "; ".
ReserveReturns(details) ==
    [returned |-> TRUE, details |-> details, raised |-> "", message |-> ""]

\* Line 181: `raise BookingError(msg)`
ReserveRaises(message) ==
    [returned |-> FALSE, details |-> <<>>, raised |-> "BookingError",
     message |-> message]

\* The call has not ended.
ReservePending ==
    [returned |-> FALSE, details |-> <<>>, raised |-> "", message |-> ""]

\* Lines 159-181 on the fetched response.
reserve_seat(resp) ==
    IF resp.erfolg
    THEN ReserveReturns(Details(resp.rows))
    ELSE IF HasBereits(resp)
    THEN ReserveRaises("Reservation failed. You may already have a reservation for this time.")
    ELSE ReserveRaises("Reservation failed.")

InitReserve ==
    /\ BookingIdle
    /\ RegistryIdle
    /\ JobsIdle
    /\ RunsIdle
    /\ CronIdle
    /\ DateIdle
    /\ RaceIdle
    /\ TranslateIdle
    /\ FindIdle
    /\ SelectIdle
    /\ rs_resp \in SeatResponses
    /\ rs_out = ReservePending

\* reserve_seat(session, seat_href) runs on the response the GET of line 157
\* returned.
ReserveSeatCall ==
    /\ rs_out = ReservePending
    /\ rs_out' = reserve_seat(rs_resp)
    /\ UNCHANGED rs_resp
    /\ UNCHANGED <<trVars, ftVars, ssVars>>
    /\ UNCHANGED <<sjVars, jobVars, runVars, cronVars, dateVars, raceVars>>
    /\ UNCHANGED bookingVars

NextReserve == ReserveSeatCall

SpecReserve == InitReserve /\ [][NextReserve]_vars

(***************************************************************************)
(* Scheduler registry (core/scheduler.py, schedule_job and                 *)
(* remove_job_from_scheduler)                                              *)
(***************************************************************************)

\* Job ids of the rows handed to schedule_job on its own.
MaxRegistryIds == 2

\* date_offset IS NULL
NoOffset == -1

\* The columns of a row of the jobs table that the scheduler and the handlers
\* read, as the forms of job_create and job_update fill them (jobs.py:63-79):
\* a recurring job has no run_at and no target_date, a one-shot job has no
\* date_offset; "" stands for NULL and for the empty string, both falsy.
JobData ==
    { d \in [recurring : BOOLEAN, date_offset : {NoOffset, 2},
             run_at : {"", "2026-12-24T08:00:00"},
             target_date : {"", "24.12.2026"}] :
        IF d.recurring THEN d.run_at = "" /\ d.target_date = ""
        ELSE d.date_offset = NoOffset }

\* A row of the jobs table.
JobRow(id, enabled, d) ==
    [id |-> id, enabled |-> enabled, recurring |-> d.recurring,
     date_offset |-> d.date_offset, run_at |-> d.run_at,
     target_date |-> d.target_date]

\* An entry of the registry: the id f"job_{id}" and the kind of its trigger.
Entry(job, trigger) == [id |-> job.id, trigger |-> trigger]

\* scheduler.get_job(job_apid) is not None
HasEntry(reg, id) == \E k \in 1..Len(reg) : reg[k].id = id

\* scheduler.remove_job(job_apid), called when there is such an entry.
RemoveEntry(reg, id) ==
    LET other(e) == e.id # id
    IN  SelectSeq(reg, other)

\* scheduler.add_job(..., id=job_apid, replace_existing=True): an entry with
\* the same id is replaced, otherwise the entry is added.
AddEntry(reg, entry) ==
    IF HasEntry(reg, entry.id)
    THEN [k \in 1..Len(reg) |-> IF reg[k].id = entry.id THEN entry ELSE reg[k]]
    ELSE Append(reg, entry)

\* Mutant of schedule_job: an existing entry is not removed first and the new
\* one is added beside it.
schedule_job_beside(reg, job) ==
    IF ~job.enabled THEN reg
    ELSE IF job.recurring THEN Append(reg, Entry(job, "cron"))
    ELSE IF job.run_at = "" THEN reg
    ELSE Append(reg, Entry(job, "date"))

\* Lines 91-131: the registry after schedule_job(job).
schedule_job(reg, job) ==
    LET removed == IF HasEntry(reg, job.id) THEN RemoveEntry(reg, job.id) ELSE reg
    IN  IF ~job.enabled THEN removed
        ELSE IF job.recurring THEN AddEntry(removed, Entry(job, "cron"))
        ELSE IF job.run_at = "" THEN removed
        ELSE AddEntry(removed, Entry(job, "date"))

\* Lines 134-137: the registry after remove_job_from_scheduler(job_id).
remove_job_from_scheduler(reg, id) ==
    IF HasEntry(reg, id) THEN RemoveEntry(reg, id) ELSE reg

\* Registries for the ids 1..n: at most one entry per id, in any order.
Registries(n) ==
    { r \in UNION {[1..k -> [id : 1..n, trigger : {"cron", "date"}]] : k \in 0..n} :
        \A i, j \in 1..Len(r) : r[i].id = r[j].id => i = j }

\* No call has been made yet.
NotCalled == [once |-> <<>>, twice |-> <<>>, removed |-> <<>>, calls |-> 0]

InitRegistry ==
    /\ BookingIdle
    /\ TranslateIdle
    /\ FindIdle
    /\ SelectIdle
    /\ ReserveIdle
    /\ JobsIdle
    /\ RunsIdle
    /\ CronIdle
    /\ DateIdle
    /\ RaceIdle
    /\ sj_in \in [registry : Registries(MaxRegistryIds),
                  job : {JobRow(id, enabled, d) :
                            id \in 1..MaxRegistryIds, enabled \in BOOLEAN, d \in JobData}]
    /\ sj_out = NotCalled

\* schedule_job(job) is called on the registry.
ScheduleOnce ==
    /\ sj_out.calls = 0
    /\ sj_out' = [sj_out EXCEPT !.once = schedule_job(sj_in.registry, sj_in.job),
                                !.calls = 1]
    /\ UNCHANGED sj_in
    /\ UNCHANGED <<trVars, ftVars, ssVars, rsVars, jobVars, runVars, cronVars, dateVars, raceVars>>
    /\ UNCHANGED bookingVars

\* schedule_job(job) is called again, with the same job.
ScheduleTwice ==
    /\ sj_out.calls = 1
    /\ sj_out' = [sj_out EXCEPT !.twice = schedule_job(sj_out.once, sj_in.job),
                                !.calls = 2]
    /\ UNCHANGED sj_in
    /\ UNCHANGED <<trVars, ftVars, ssVars, rsVars, jobVars, runVars, cronVars, dateVars, raceVars>>
    /\ UNCHANGED bookingVars

\* remove_job_from_scheduler(job["id"]) is called after that, twice: the
\* second call finds no entry.
RemoveTwice ==
    /\ sj_out.calls = 2
    /\ sj_out' = [sj_out EXCEPT
                     !.removed = remove_job_from_scheduler(
                                    remove_job_from_scheduler(sj_out.twice, sj_in.job.id),
                                    sj_in.job.id),
                     !.calls = 3]
    /\ UNCHANGED sj_in
    /\ UNCHANGED <<trVars, ftVars, ssVars, rsVars, jobVars, runVars, cronVars, dateVars, raceVars>>
    /\ UNCHANGED bookingVars

NextRegistry == ScheduleOnce \/ ScheduleTwice \/ RemoveTwice

SpecRegistry == InitRegistry /\ [][NextRegistry]_vars

(***************************************************************************)
(* Job store, booking log, scheduled and manual runs (core/db.py,          *)
(* core/scheduler.py, web/routes/jobs.py)                                  *)
(***************************************************************************)

\* Rows the jobs table ever gets, and rows the booking log gets.
MaxJobs == 1
MaxLogRows == 2

\* db.get_job(job_id) found no row: None.
NoJob ==
    [id |-> 0, enabled |-> FALSE, recurring |-> FALSE, date_offset |-> NoOffset,
     run_at |-> "", target_date |-> ""]

\* The jobs table is a sequence indexed by the AUTO_INCREMENT id; a deleted
\* row leaves NoJob behind, its id is never given out again.
get_job(st, id) == IF id \in 1..Len(st) THEN st[id] ELSE NoJob

create_job(st, d) == Append(st, JobRow(Len(st) + 1, TRUE, d))

update_job(st, id, d) ==
    IF get_job(st, id) # NoJob THEN [st EXCEPT ![id] = JobRow(id, TRUE, d)] ELSE st

delete_job(st, id) ==
    IF get_job(st, id) # NoJob THEN [st EXCEPT ![id] = NoJob] ELSE st

\* UPDATE jobs SET enabled = 1 - enabled
toggle_job(st, id) ==
    IF get_job(st, id) # NoJob THEN [st EXCEPT ![id].enabled = ~@] ELSE st

disable_job(st, id) ==
    IF get_job(st, id) # NoJob THEN [st EXCEPT ![id].enabled = FALSE] ELSE st

\* SELECT * FROM jobs WHERE enabled = 1 ORDER BY id
get_enabled_jobs(st) ==
    LET enabled(row) == row # NoJob /\ row.enabled
    IN  SelectSeq(st, enabled)

\* scheduler.py:140-144: schedule_job for every enabled job, in id order.
RECURSIVE load_all_jobs(_, _)
load_all_jobs(reg, jobs) ==
    IF jobs = <<>> THEN reg
    ELSE load_all_jobs(schedule_job(reg, Head(jobs)), Tail(jobs))

\* Lines 51-57 of run_booking_job and 176-181 of job_run_now: the target
\* date of a run, "" when none is configured.
TargetDate(job) ==
    IF job.recurring /\ job.date_offset # NoOffset THEN "now+offset"
    ELSE IF job.target_date # "" THEN job.target_date
    ELSE ""

\* What execute_booking does: it returns, raises BookingError or raises
\* another exception.
Outcomes == {"returned", "BookingError", "Exception"}

\* The status the handlers of the three outcomes write.
StatusOf(outcome) ==
    CASE outcome = "returned" -> "success"
      [] outcome = "BookingError" -> "failed"
      [] outcome = "Exception" -> "error"

\* db.log_booking_start: INSERT ... 'running'; the new row's id is lastrowid.
log_booking_start(log, job_id, manual) ==
    Append(log, [job_id |-> job_id, status |-> "running", manual |-> manual,
                 updates |-> 0])

\* db.log_booking_finish: UPDATE booking_log SET status = ... WHERE id = log_id
log_booking_finish(log, log_id, status) ==
    [log EXCEPT ![log_id].status = status, ![log_id].updates = @ + 1]

\* No invocation of run_booking_job (of job_run_now) is under way.
\* Of the row read at the start a run later uses job["recurring"] only.
IdleRun ==
    [pc |-> "idle", job_id |-> 0, recurring |-> FALSE, log_id |-> 0, outcome |-> "none"]

\* The jobs table when the application starts.
InitialStores ==
    UNION { [1..n -> {NoJob} \cup {JobRow(0, e, d) : e \in BOOLEAN, d \in JobData}] :
              n \in 0..MaxJobs }

\* The rows carry their own id.
WithIds(st) ==
    [i \in 1..Len(st) |-> IF st[i] = NoJob THEN NoJob ELSE [st[i] EXCEPT !.id = i]]

InitJobs ==
    /\ BookingIdle
    /\ TranslateIdle
    /\ FindIdle
    /\ SelectIdle
    /\ ReserveIdle
    /\ RegistryIdle
    /\ RunsIdle
    /\ CronIdle
    /\ DateIdle
    /\ RaceIdle
    /\ store \in {WithIds(st) : st \in InitialStores}
    /\ registry = <<>>
    /\ booking_log = <<>>
    /\ sched_run = IdleRun
    /\ manual_run = IdleRun
    /\ started = FALSE

jobFrame ==
    /\ UNCHANGED <<trVars, ftVars, ssVars, rsVars, sjVars, runVars, cronVars, dateVars, raceVars>>
    /\ UNCHANGED bookingVars

\* scheduler.py:147-151, start(): load_all_jobs, then the scheduler runs.
Start ==
    /\ started = FALSE
    /\ started' = TRUE
    /\ registry' = load_all_jobs(registry, get_enabled_jobs(store))
    /\ UNCHANGED <<store, booking_log, sched_run, manual_run>>
    /\ jobFrame

\* jobs.py:45-83, job_create.
JobCreate ==
    /\ started = TRUE
    /\ Len(store) < MaxJobs
    /\ \E d \in JobData :
          LET st == create_job(store, d)
              job == get_job(st, Len(st))
          IN  /\ store' = st
              /\ registry' = schedule_job(registry, job)
    /\ UNCHANGED <<booking_log, sched_run, manual_run, started>>
    /\ jobFrame

\* jobs.py:107-146, job_update; for an id without row db.get_job gives None
\* and schedule_job(None) raises TypeError before it touches the registry.
JobUpdate ==
    /\ started = TRUE
    /\ \E id \in 1..MaxJobs, d \in JobData :
          LET st == update_job(store, id, d)
              job == get_job(st, id)
          IN  /\ store' = st
              /\ registry' = IF job = NoJob THEN registry
                              ELSE schedule_job(registry, job)
    /\ UNCHANGED <<booking_log, sched_run, manual_run, started>>
    /\ jobFrame

\* jobs.py:150-154, job_delete.
JobDelete ==
    /\ started = TRUE
    /\ \E id \in 1..MaxJobs :
          /\ registry' = remove_job_from_scheduler(registry, id)
          /\ store' = delete_job(store, id)
    /\ UNCHANGED <<booking_log, sched_run, manual_run, started>>
    /\ jobFrame

\* Mutant of JobToggle: the entry of a job that was switched off stays.
JobToggleKeepsEntry ==
    /\ started = TRUE
    /\ \E id \in 1..MaxJobs :
          LET st == toggle_job(store, id)
              job == get_job(st, id)
          IN  /\ store' = st
              /\ registry' = IF job # NoJob /\ job.enabled
                              THEN schedule_job(registry, job)
                              ELSE registry
    /\ UNCHANGED <<booking_log, sched_run, manual_run, started>>
    /\ jobFrame

\* jobs.py:158-166, job_toggle.
JobToggle ==
    /\ started = TRUE
    /\ \E id \in 1..MaxJobs :
          LET st == toggle_job(store, id)
              job == get_job(st, id)
          IN  /\ store' = st
              /\ registry' = IF job = NoJob THEN registry
                              ELSE IF job.enabled THEN schedule_job(registry, job)
                              ELSE remove_job_from_scheduler(registry, id)
    /\ UNCHANGED <<booking_log, sched_run, manual_run, started>>
    /\ jobFrame

\* The trigger of an entry fires and the scheduler calls
\* run_booking_job(job_id); an entry with a date trigger has no further run
\* time and leaves the registry as it fires.
Fire ==
    /\ started = TRUE
    /\ sched_run.pc = "idle"
    /\ \E k \in 1..Len(registry) :
          /\ sched_run' = [IdleRun EXCEPT !.pc = "fired", !.job_id = registry[k].id]
          /\ registry' = IF registry[k].trigger = "date"
                          THEN RemoveEntry(registry, registry[k].id)
                          ELSE registry
    /\ UNCHANGED <<store, booking_log, manual_run, started>>
    /\ jobFrame

\* Lines 43-57: why run_booking_job returns early, as it logs it; "" if it
\* goes on.
Skips(job) ==
    IF job = NoJob THEN "not found"
    ELSE IF ~job.enabled THEN "disabled"
    ELSE IF TargetDate(job) = "" THEN "no target date"
    ELSE ""

\* Mutant of RunStart: the enabled flag of the row is not looked at.
RunStartIgnoresEnabled ==
    /\ sched_run.pc = "fired"
    /\ LET job == get_job(store, sched_run.job_id)
       IN  IF job = NoJob \/ TargetDate(job) = ""
           THEN /\ sched_run' = [IdleRun EXCEPT !.outcome = Skips(job)]
                /\ UNCHANGED booking_log
           ELSE /\ Len(booking_log) < MaxLogRows
                /\ booking_log' = log_booking_start(booking_log, job.id, FALSE)
                /\ sched_run' = [sched_run EXCEPT !.pc = "executing",
                                                  !.recurring = job.recurring,
                                                  !.log_id = Len(booking_log')]
    /\ UNCHANGED <<store, registry, manual_run, started>>
    /\ jobFrame

\* scheduler.py:42-66, run_booking_job up to the call of execute_booking.
RunStart ==
    /\ sched_run.pc = "fired"
    /\ LET job == get_job(store, sched_run.job_id)
       IN  IF Skips(job) # ""
           THEN /\ sched_run' = [IdleRun EXCEPT !.outcome = Skips(job)]
                /\ UNCHANGED booking_log
           ELSE /\ Len(booking_log) < MaxLogRows
                /\ booking_log' = log_booking_start(booking_log, job.id, FALSE)
                /\ sched_run' = [sched_run EXCEPT !.pc = "executing",
                                                  !.recurring = job.recurring,
                                                  !.log_id = Len(booking_log')]
    /\ UNCHANGED <<store, registry, manual_run, started>>
    /\ jobFrame

\* scheduler.py:69-75, execute_booking returns or raises.
RunExecute ==
    /\ sched_run.pc = "executing"
    /\ \E outcome \in Outcomes :
          sched_run' = [sched_run EXCEPT !.pc = "finishing", !.outcome = outcome]
    /\ UNCHANGED <<store, registry, booking_log, manual_run, started>>
    /\ jobFrame

\* Mutant of RunFinish: the row is finished only on a normal return.
RunFinishSuccessOnly ==
    /\ sched_run.pc = "finishing"
    /\ booking_log' = IF sched_run.outcome = "returned"
                       THEN log_booking_finish(booking_log, sched_run.log_id, "success")
                       ELSE booking_log
    /\ IF ~sched_run.recurring
       THEN /\ store' = disable_job(store, sched_run.job_id)
            /\ registry' = remove_job_from_scheduler(registry, sched_run.job_id)
       ELSE UNCHANGED <<store, registry>>
    /\ sched_run' = IdleRun
    /\ UNCHANGED <<manual_run, started>>
    /\ jobFrame

\* scheduler.py:76-88, run_booking_job after execute_booking: the log row is
\* finished, a one-shot job is disabled and taken from the registry.
RunFinish ==
    /\ sched_run.pc = "finishing"
    /\ booking_log' = log_booking_finish(booking_log, sched_run.log_id,
                                          StatusOf(sched_run.outcome))
    /\ IF ~sched_run.recurring
       THEN /\ store' = disable_job(store, sched_run.job_id)
            /\ registry' = remove_job_from_scheduler(registry, sched_run.job_id)
       ELSE UNCHANGED <<store, registry>>
    /\ sched_run' = IdleRun
    /\ UNCHANGED <<manual_run, started>>
    /\ jobFrame

\* jobs.py:171-191, job_run_now up to the call of execute_booking.
ManualStart ==
    /\ started = TRUE
    /\ manual_run.pc = "idle"
    /\ \E id \in 1..MaxJobs :
          LET job == get_job(store, id)
          IN  IF job = NoJob \/ TargetDate(job) = ""
              THEN UNCHANGED <<manual_run, booking_log>>
              ELSE /\ Len(booking_log) < MaxLogRows
                   /\ booking_log' = log_booking_start(booking_log, job.id, TRUE)
                   /\ manual_run' = [pc |-> "executing", job_id |-> id,
                                      recurring |-> job.recurring,
                                      log_id |-> Len(booking_log'), outcome |-> "none"]
    /\ UNCHANGED <<store, registry, sched_run, started>>
    /\ jobFrame

\* jobs.py:193-200, execute_booking returns or raises.
ManualExecute ==
    /\ manual_run.pc = "executing"
    /\ \E outcome \in Outcomes :
          manual_run' = [manual_run EXCEPT !.pc = "finishing", !.outcome = outcome]
    /\ UNCHANGED <<store, registry, booking_log, sched_run, started>>
    /\ jobFrame

\* Mutant of ManualFinish: a one-shot job is disabled and unscheduled, as
\* after a scheduled run.
ManualFinishDisables ==
    /\ manual_run.pc = "finishing"
    /\ booking_log' = log_booking_finish(booking_log, manual_run.log_id,
                                          StatusOf(manual_run.outcome))
    /\ manual_run' = IdleRun
    /\ IF ~manual_run.recurring
       THEN /\ store' = disable_job(store, manual_run.job_id)
            /\ registry' = remove_job_from_scheduler(registry, manual_run.job_id)
       ELSE UNCHANGED <<store, registry>>
    /\ UNCHANGED <<sched_run, started>>
    /\ jobFrame

\* jobs.py:200-210, job_run_now after execute_booking.
ManualFinish ==
    /\ manual_run.pc = "finishing"
    /\ booking_log' = log_booking_finish(booking_log, manual_run.log_id,
                                          StatusOf(manual_run.outcome))
    /\ manual_run' = IdleRun
    /\ UNCHANGED <<store, registry, sched_run, started>>
    /\ jobFrame

NextJobs ==
    \/ Start
    \/ JobCreate
    \/ JobUpdate
    \/ JobDelete
    \/ JobToggle
    \/ Fire
    \/ RunStart
    \/ RunExecute
    \/ RunFinish
    \/ ManualStart
    \/ ManualExecute
    \/ ManualFinish

SpecJobs == InitJobs /\ [][NextJobs]_vars

(***************************************************************************)
(* Concurrent invocations of execute_booking and scheduler shutdown        *)
(* (core/booking.py, core/scheduler.py)                                    *)
(***************************************************************************)

\* Invocations of execute_booking, by the scheduler's worker threads and by
\* job_run_now, that may overlap.
MaxRuns == 2

RunIds == 1..MaxRuns

\* An invocation that has not begun; session 0 is no session.
NewRun == [pc |-> "new", attempt |-> 0, session |-> 0, created |-> 0]

\* Mutant of NewSession: one module-level session serves every invocation.
NewSessionShared(rs) == 1

\* booking.py:27, requests.Session(): an object distinct from every session
\* made before.
NewSession(rs) ==
    1 + (CHOOSE m \in 0..MaxRuns :
            /\ \A r \in RunIds : rs[r].session <= m
            /\ m = 0 \/ \E r \in RunIds : rs[r].session = m)

\* A request of run r on its variable `session`, made in the given stage.
Use(r, stage) == [session |-> runs[r].session, run |-> r, stage |-> stage]

InitRuns ==
    /\ BookingIdle
    /\ TranslateIdle
    /\ FindIdle
    /\ SelectIdle
    /\ ReserveIdle
    /\ RegistryIdle
    /\ JobsIdle
    /\ CronIdle
    /\ DateIdle
    /\ RaceIdle
    /\ runs = [r \in RunIds |-> NewRun]
    /\ session_uses = {}
    /\ stopping = FALSE

runFrame ==
    /\ UNCHANGED <<trVars, ftVars, ssVars, rsVars, sjVars, jobVars, cronVars, dateVars,
                   raceVars>>
    /\ UNCHANGED bookingVars

\* booking.py:27-28: the invocation begins and makes its session. A scheduler
\* that was shut down submits no job any more.
CreateSession(r) ==
    /\ stopping = FALSE
    /\ runs[r].pc = "new"
    /\ runs' = [runs EXCEPT ![r] = [pc |-> "login", attempt |-> 0,
                                    session |-> NewSession(runs),
                                    created |-> runs[r].created + 1]]
    /\ UNCHANGED <<session_uses, stopping>>
    /\ runFrame

\* booking.py:31: login(session); an exception leaves execute_booking.
RunLogin(r) ==
    /\ runs[r].pc = "login"
    /\ session_uses' = session_uses \cup {Use(r, "login")}
    /\ \E ok \in BOOLEAN :
          runs' = [runs EXCEPT ![r].pc = IF ok THEN "captcha" ELSE "raised"]
    /\ UNCHANGED stopping
    /\ runFrame

\* booking.py:32: handle_captcha(session, html); an exception leaves
\* execute_booking.
RunCaptcha(r) ==
    /\ runs[r].pc = "captcha"
    /\ session_uses' = session_uses \cup {Use(r, "captcha")}
    /\ \E ok \in BOOLEAN :
          runs' = [runs EXCEPT ![r] = IF ok THEN [@ EXCEPT !.pc = "attempt", !.attempt = 1]
                                      ELSE [@ EXCEPT !.pc = "raised"]]
    /\ UNCHANGED stopping
    /\ runFrame

\* booking.py:35-54: one pass of the retry loop: the three stages on the
\* session, then the return, the sleep before the next attempt, or the raise
\* of the last error.
RunAttempt(r) ==
    /\ runs[r].pc = "attempt"
    /\ session_uses' = session_uses \cup {Use(r, "attempt")}
    /\ \E ok \in BOOLEAN :
          runs' = [runs EXCEPT ![r].pc = IF ok THEN "done"
                                         ELSE IF runs[r].attempt < RETRIES THEN "sleep"
                                         ELSE "raised"]
    /\ UNCHANGED stopping
    /\ runFrame

\* booking.py:49-50 and 35: time.sleep(RETRY_DELAY) returns and the loop goes
\* on to the next attempt; nothing the function looks at can end the sleep
\* early or the loop.
RunWake(r) ==
    /\ runs[r].pc = "sleep"
    /\ runs' = [runs EXCEPT ![r].pc = "attempt", ![r].attempt = @ + 1]
    /\ UNCHANGED <<session_uses, stopping>>
    /\ runFrame

\* scheduler.py:154-156, shutdown(): scheduler.shutdown(wait=False) returns
\* without waiting for the jobs that are running and without telling them.
Shutdown ==
    /\ stopping = FALSE
    /\ stopping' = TRUE
    /\ UNCHANGED <<runs, session_uses>>
    /\ runFrame

NextRuns ==
    \/ \E r \in RunIds : CreateSession(r)
    \/ \E r \in RunIds : RunLogin(r)
    \/ \E r \in RunIds : RunCaptcha(r)
    \/ \E r \in RunIds : RunAttempt(r)
    \/ \E r \in RunIds : RunWake(r)
    \/ Shutdown

SpecRuns == InitRuns /\ [][NextRuns]_vars

(***************************************************************************)
(* The target date of one job run (core/scheduler.py, run_booking_job;     *)
(* core/booking.py, execute_booking)                                       *)
(***************************************************************************)

\* Midnights that pass while the run lasts; dates are day numbers.
MaxDays == 2

\* The row run_booking_job read at line 42: a recurring job with its offset
\* or a one-shot job with its target date, and the arguments of the booking.
DatedJobs ==
    { j \in [recurring : BOOLEAN, date_offset : {NoOffset, 0, 2}, target_date : {-1, 1},
              time_slot : {"08:00-12:00"}, group_room : BOOLEAN,
              preferred_section : {"", "Hauptlesesaal"}] :
        IF j.recurring THEN j.date_offset # NoOffset /\ j.target_date = -1
        ELSE j.date_offset = NoOffset /\ j.target_date # -1 }

\* The arguments of a call of find_timeslot.
FindArgs(no, date, time_slot, group_room, preferred_section) ==
    [attempt |-> no, date |-> date, time_slot |-> time_slot,
     group_room |-> group_room, preferred_section |-> preferred_section]

InitDate ==
    /\ BookingIdle
    /\ TranslateIdle
    /\ FindIdle
    /\ SelectIdle
    /\ ReserveIdle
    /\ RegistryIdle
    /\ JobsIdle
    /\ RunsIdle
    /\ CronIdle
    /\ RaceIdle
    /\ today = 0
    /\ date_run \in [pc : {"called"}, job : DatedJobs, target_date : {-1},
                     computed : {0}, log_date : {-1}, attempt : {0}, finds : {{}}]

dateFrame ==
    /\ UNCHANGED <<trVars, ftVars, ssVars, rsVars, sjVars, jobVars, runVars, cronVars,
                   raceVars>>
    /\ UNCHANGED bookingVars

\* Midnight passes.
Tick ==
    /\ today < MaxDays
    /\ today' = today + 1
    /\ UNCHANGED date_run
    /\ dateFrame

\* scheduler.py:50-66: the target date is computed from the clock or taken
\* from the row, and written to the new row of the booking log.
DateRunStart ==
    /\ date_run.pc = "called"
    /\ LET target_date == IF date_run.job.recurring
                           THEN today + date_run.job.date_offset
                           ELSE date_run.job.target_date
       IN  date_run' = [date_run EXCEPT !.pc = "auth",
                                        !.target_date = target_date,
                                        !.computed = @ + 1,
                                        !.log_date = target_date]
    /\ UNCHANGED today
    /\ dateFrame

\* booking.py:31-32: login and handle_captcha; an exception leaves
\* execute_booking.
DateAuth ==
    /\ date_run.pc = "auth"
    /\ \E ok \in BOOLEAN :
          date_run' = IF ok THEN [date_run EXCEPT !.pc = "attempt", !.attempt = 1]
                      ELSE [date_run EXCEPT !.pc = "raised"]
    /\ UNCHANGED today
    /\ dateFrame

\* Mutant of DateAttempt: the date of a recurring job is computed anew for
\* every attempt.
DateAttemptRecomputes ==
    /\ date_run.pc = "attempt"
    /\ \E ok \in BOOLEAN :
          date_run' =
            [date_run EXCEPT
               !.finds = @ \cup {FindArgs(date_run.attempt,
                                          IF date_run.job.recurring
                                          THEN today + date_run.job.date_offset
                                          ELSE date_run.job.target_date,
                                          date_run.job.time_slot,
                                          date_run.job.group_room,
                                          date_run.job.preferred_section)},
               !.pc = IF ok THEN "done"
                      ELSE IF date_run.attempt < RETRIES THEN "sleep" ELSE "raised"]
    /\ UNCHANGED today
    /\ dateFrame

\* scheduler.py:69-75 and booking.py:35-54: one pass of the retry loop calls
\* find_timeslot(session, library_id, date, time_slot, group_room=...,
\* preferred_section=...) with the parameters of execute_booking.
DateAttempt ==
    /\ date_run.pc = "attempt"
    /\ \E ok \in BOOLEAN :
          date_run' =
            [date_run EXCEPT
               !.finds = @ \cup {FindArgs(date_run.attempt, date_run.target_date,
                                          date_run.job.time_slot,
                                          date_run.job.group_room,
                                          date_run.job.preferred_section)},
               !.pc = IF ok THEN "done"
                      ELSE IF date_run.attempt < RETRIES THEN "sleep" ELSE "raised"]
    /\ UNCHANGED today
    /\ dateFrame

\* booking.py:50: the sleep ends, the loop goes on.
DateWake ==
    /\ date_run.pc = "sleep"
    /\ date_run' = [date_run EXCEPT !.pc = "attempt", !.attempt = @ + 1]
    /\ UNCHANGED today
    /\ dateFrame

NextDate == Tick \/ DateRunStart \/ DateAuth \/ DateAttempt \/ DateWake

SpecDate == InitDate /\ [][NextDate]_vars

(***************************************************************************)
(* Handlers running concurrently on one job (web/routes/jobs.py,           *)
(* core/scheduler.py, core/db.py): every database statement and every call *)
(* of the scheduler is a step of its own                                   *)
(***************************************************************************)

\* job_toggle, job_update, job_delete, and the end of run_booking_job for a
\* one-shot job (lines 85-88), all for the job with id 1.
Handlers == {"toggle", "update", "delete", "run"}

\* What the form of job_update may hold.
RaceData ==
    { d \in JobData : (d.recurring /\ d.date_offset # NoOffset)
                        \/ (d.run_at # "" /\ d.target_date # "") }

\* The one-shot job the run was started for.
OneShotData == CHOOSE d \in RaceData : ~d.recurring

\* The first step of each handler.
FirstStep(h) ==
    CASE h = "toggle" -> "toggle_update"
      [] h = "update" -> "update_write"
      [] h = "delete" -> "remove_get"
      [] h = "run" -> "run_disable"

\* The locals of a handler: the row it read, the state toggle_job returned,
\* what scheduler.get_job answered.
Locals(at) == [pc |-> at, job |-> NoJob, new_state |-> FALSE, found |-> FALSE]

\* The handler has returned or raised, or was never called.
Completed(h) == handlers[h].pc \in {"done", "raised", "off"}

InitRace ==
    /\ BookingIdle
    /\ TranslateIdle
    /\ FindIdle
    /\ SelectIdle
    /\ ReserveIdle
    /\ RegistryIdle
    /\ RunsIdle
    /\ CronIdle
    /\ DateIdle
    /\ booking_log = "idle"
    /\ sched_run = "idle"
    /\ manual_run = "idle"
    /\ started = "idle"
    /\ \E enabled \in BOOLEAN :
          /\ store = <<JobRow(1, enabled, OneShotData)>>
          /\ registry \in {<<>>} \cup
                {<<Entry(store[1], "date")>> : e \in {enabled} \ {FALSE}}
    /\ handlers \in {hs \in [Handlers -> {Locals(at) : at \in {"off", "toggle_update",
                                   "update_write", "remove_get", "run_disable"}}] :
                        \A h \in Handlers : hs[h].pc \in {"off", FirstStep(h)}}

raceFrame ==
    /\ UNCHANGED <<booking_log, sched_run, manual_run, started>>
    /\ UNCHANGED <<trVars, ftVars, ssVars, rsVars, sjVars, runVars, cronVars, dateVars>>
    /\ UNCHANGED bookingVars

\* The handler moves on.
Goes(h, at) == handlers' = [handlers EXCEPT ![h].pc = at]

\* db.py:178-179, toggle_job: UPDATE jobs SET enabled = 1 - enabled, commit.
ToggleUpdate ==
    /\ handlers["toggle"].pc = "toggle_update"
    /\ store' = toggle_job(store, 1)
    /\ Goes("toggle", "toggle_select")
    /\ UNCHANGED registry
    /\ raceFrame

\* db.py:180-183, toggle_job: SELECT enabled; False when there is no row.
ToggleSelect ==
    /\ handlers["toggle"].pc = "toggle_select"
    /\ handlers' = [handlers EXCEPT !["toggle"].pc = "toggle_get",
                                    !["toggle"].new_state = get_job(store, 1).enabled]
    /\ UNCHANGED <<store, registry>>
    /\ raceFrame

\* jobs.py:160-165, job_toggle: the row is read; schedule_job or
\* remove_job_from_scheduler by new_state, nothing without a row.
ToggleGet ==
    /\ handlers["toggle"].pc = "toggle_get"
    /\ LET job == get_job(store, 1)
       IN  handlers' = [handlers EXCEPT
                          !["toggle"].job = job,
                          !["toggle"].pc = IF job = NoJob THEN "done"
                                           ELSE IF handlers["toggle"].new_state
                                           THEN "schedule_get"
                                           ELSE "remove_get"]
    /\ UNCHANGED <<store, registry>>
    /\ raceFrame

\* jobs.py:143, job_update: db.update_job writes the form, enabled = 1.
UpdateWrite ==
    /\ handlers["update"].pc = "update_write"
    /\ \E d \in RaceData : store' = update_job(store, 1, d)
    /\ Goes("update", "update_get")
    /\ UNCHANGED registry
    /\ raceFrame

\* jobs.py:144-145, job_update: the row is read and handed to schedule_job,
\* which raises TypeError at line 93 when there is none.
UpdateGet ==
    /\ handlers["update"].pc = "update_get"
    /\ LET job == get_job(store, 1)
       IN  handlers' = [handlers EXCEPT
                          !["update"].job = job,
                          !["update"].pc = IF job = NoJob THEN "raised" ELSE "schedule_get"]
    /\ UNCHANGED <<store, registry>>
    /\ raceFrame

\* scheduler.py:87, run_booking_job: db.disable_job.
RunDisable ==
    /\ handlers["run"].pc = "run_disable"
    /\ store' = disable_job(store, 1)
    /\ Goes("run", "remove_get")
    /\ UNCHANGED registry
    /\ raceFrame

\* scheduler.py:96, schedule_job: scheduler.get_job(job_apid).
ScheduleGet(h) ==
    /\ handlers[h].pc = "schedule_get"
    /\ handlers' = [handlers EXCEPT ![h].found = HasEntry(registry, 1),
                                    ![h].pc = IF HasEntry(registry, 1)
                                              THEN "schedule_remove" ELSE "schedule_add"]
    /\ UNCHANGED <<store, registry>>
    /\ raceFrame

\* scheduler.py:97, schedule_job: scheduler.remove_job(job_apid), which
\* raises JobLookupError when the entry is gone by now.
ScheduleRemove(h) ==
    /\ handlers[h].pc = "schedule_remove"
    /\ IF HasEntry(registry, 1)
       THEN /\ registry' = RemoveEntry(registry, 1)
            /\ Goes(h, "schedule_add")
       ELSE /\ UNCHANGED registry
            /\ Goes(h, "raised")
    /\ UNCHANGED store
    /\ raceFrame

\* scheduler.py:99-130, schedule_job: by the row it was handed, nothing for
\* a disabled job or a one-shot job without run_at, else add_job with
\* replace_existing=True.
ScheduleAdd(h) ==
    /\ handlers[h].pc = "schedule_add"
    /\ LET job == handlers[h].job
       IN  registry' = IF ~job.enabled THEN registry
                       ELSE IF job.recurring THEN AddEntry(registry, Entry(job, "cron"))
                       ELSE IF job.run_at = "" THEN registry
                       ELSE AddEntry(registry, Entry(job, "date"))
    /\ Goes(h, "done")
    /\ UNCHANGED store
    /\ raceFrame

\* scheduler.py:136, remove_job_from_scheduler: scheduler.get_job(job_apid).
RemoveGet(h) ==
    /\ handlers[h].pc = "remove_get"
    /\ handlers' = [handlers EXCEPT ![h].found = HasEntry(registry, 1),
                                    ![h].pc = IF HasEntry(registry, 1) THEN "remove_remove"
                                              ELSE IF h = "delete" THEN "delete_row"
                                              ELSE "done"]
    /\ UNCHANGED <<store, registry>>
    /\ raceFrame

\* scheduler.py:137, remove_job_from_scheduler: scheduler.remove_job, which
\* raises JobLookupError when the entry is gone by now.
RemoveRemove(h) ==
    /\ handlers[h].pc = "remove_remove"
    /\ IF HasEntry(registry, 1)
       THEN /\ registry' = RemoveEntry(registry, 1)
            /\ Goes(h, IF h = "delete" THEN "delete_row" ELSE "done")
       ELSE /\ UNCHANGED registry
            /\ Goes(h, "raised")
    /\ UNCHANGED store
    /\ raceFrame

\* jobs.py:152, job_delete: db.delete_job.
DeleteRow ==
    /\ handlers["delete"].pc = "delete_row"
    /\ store' = delete_job(store, 1)
    /\ Goes("delete", "done")
    /\ UNCHANGED registry
    /\ raceFrame

NextRace ==
    \/ ToggleUpdate
    \/ ToggleSelect
    \/ ToggleGet
    \/ UpdateWrite
    \/ UpdateGet
    \/ RunDisable
    \/ \E h \in Handlers : ScheduleGet(h)
    \/ \E h \in Handlers : ScheduleRemove(h)
    \/ \E h \in Handlers : ScheduleAdd(h)
    \/ \E h \in Handlers : RemoveGet(h)
    \/ \E h \in Handlers : RemoveRemove(h)
    \/ DeleteRow

SpecRace == InitRace /\ [][NextRace]_vars

(***************************************************************************)
(* Retry orchestrator (core/booking.py)                                    *)
(***************************************************************************)

BookingStarted == calls["find_timeslot"] >= 1 \/ pc \in {"find", "select", "reserve"}

\* C1: login and handle_captcha are never invoked more than once in a run, and
\* whenever a booking attempt has started - the first one or any retry, failed
\* or not - each of them has been invoked exactly once.
C1_AuthenticatesOnce ==
    /\ calls["login"] <= 1
    /\ calls["handle_captcha"] <= 1
    /\ BookingStarted => calls["login"] = 1 /\ calls["handle_captcha"] = 1

\* A run whose first two attempts failed and whose third succeeded.
C1_Witness ==
    /\ pc = "returned"
    /\ attempt = RETRIES
    /\ calls["sleep"] = RETRIES - 1
    /\ calls["login"] = 1
    /\ calls["handle_captcha"] = 1

\* C2: when execute_booking has returned, it did so in the first attempt k whose
\* three stages succeeded (all earlier attempts failed), k is in 1..RETRIES, the
\* record holds the seat description and the details of attempt k, exactly k - 1
\* sleeps happened, exactly k attempts were ever started and nothing runs on.
C2_ReturnsFirstSuccess ==
    pc = "returned" =>
        /\ attempt \in 1..RETRIES
        /\ Len(outcomes) = attempt
        /\ outcomes[attempt] = "ok"
        /\ \A i \in 1..(attempt - 1) : outcomes[i] # "ok"
        /\ result.success
        /\ result.seat_desc.kind = "desc"
        /\ result.seat_desc.at = attempt
        /\ result.message.kind = "details"
        /\ result.message.at = attempt
        /\ stages[Len(stages)] =
               Call("reserve_seat", seat_href, result.message)
        /\ stages[Len(stages) - 1].ret.id = result.seat_desc.id
        /\ calls["sleep"] = attempt - 1
        /\ calls["find_timeslot"] = attempt
        /\ calls["reserve_seat"] <= attempt
        /\ ~ENABLED Next

\* The case of the spec's example: two failed attempts, success in the third.
C2_Witness ==
    /\ pc = "returned"
    /\ outcomes = <<"ReservationFailed", "ReservationFailed", "ok">>
    /\ calls["sleep"] = 2

\* C3: an exception of a booking stage reaches the caller only after RETRIES
\* failed attempts; it is the exception of the last attempt, unchanged, and
\* exactly RETRIES - 1 sleeps happened (none after the last failure).
C3_RaisesLastError ==
    (raised # None /\ auth_error = None) =>
        /\ pc = "raised"
        /\ attempt = RETRIES
        /\ Len(outcomes) = RETRIES
        /\ \A i \in 1..RETRIES : outcomes[i] # "ok"
        /\ raised = [kind |-> outcomes[RETRIES], at |-> RETRIES]
        /\ raised = last_error
        /\ calls["sleep"] = RETRIES - 1

\* All attempts failed, the first and the last with different errors.
C3_Witness ==
    /\ pc = "raised"
    /\ Len(outcomes) = RETRIES
    /\ outcomes[1] = "NoSlotsForDate"
    /\ outcomes[RETRIES] = "ReservationFailed"

\* C4: in the call log every attempt starts with find_timeslot (the first call
\* is attempt 1's, a later one follows a failed call of the attempt before),
\* select_seat directly follows a find_timeslot of the same attempt and gets the
\* link it returned, and reserve_seat directly follows a select_seat of the same
\* attempt and gets the link it returned; links are those of the same attempt.
C4_StageOrder ==
    \A i \in DOMAIN stages :
        LET c == stages[i] IN
        /\ c.attempt <= attempt
        /\ c.fn = "find_timeslot" =>
              /\ c.attempt = IF i = 1 THEN 1 ELSE stages[i - 1].attempt + 1
              /\ i > 1 => stages[i - 1].ret = NoLink
        /\ c.fn = "select_seat" =>
              /\ i > 1
              /\ stages[i - 1].fn = "find_timeslot"
              /\ stages[i - 1].attempt = c.attempt
              /\ c.arg = stages[i - 1].ret
              /\ c.arg.kind = "timeslot"
              /\ c.arg.at = c.attempt
        /\ c.fn = "reserve_seat" =>
              /\ i > 1
              /\ stages[i - 1].fn = "select_seat"
              /\ stages[i - 1].attempt = c.attempt
              /\ c.arg = stages[i - 1].ret
              /\ c.arg.kind = "seat"
              /\ c.arg.at = c.attempt

\* An earlier attempt obtained a slot link and failed; a later attempt called
\* select_seat and reserve_seat.
C4_Witness ==
    /\ pc = "returned"
    /\ \E i, j \in DOMAIN stages :
          /\ i < j
          /\ stages[i].fn = "find_timeslot"
          /\ stages[i].ret # NoLink
          /\ stages[j].fn = "select_seat"
          /\ stages[j].attempt > stages[i].attempt

\* C5: once login or handle_captcha has raised, execute_booking has raised that
\* very exception: no stage was called, no attempt started, nothing slept, and
\* login and handle_captcha were not invoked a second time.
C5_AuthFailureAborts ==
    auth_error # None =>
        /\ pc = "raised"
        /\ raised = auth_error
        /\ stages = <<>>
        /\ attempt = 0
        /\ calls["find_timeslot"] = 0
        /\ calls["select_seat"] = 0
        /\ calls["reserve_seat"] = 0
        /\ calls["sleep"] = 0
        /\ calls["login"] = 1
        /\ calls["handle_captcha"] <= 1
        /\ auth_error.kind = "LoginFailed" <=> calls["handle_captcha"] = 0

\* handle_captcha gave up after the login had succeeded.
C5_Witness ==
    /\ pc = "raised"
    /\ auth_error.kind = "CaptchaExhausted"
    /\ calls["handle_captcha"] = 1

\* C6: under FairSpec (every exchange returns, so the run keeps stepping) the
\* run never makes more than RETRIES attempts nor more than RETRIES - 1 sleeps,
\* and it eventually ends: it has returned a success record or it has raised.
C6_Terminates ==
    /\ [](/\ attempt <= RETRIES
          /\ calls["find_timeslot"] <= RETRIES
          /\ calls["select_seat"] <= RETRIES
          /\ calls["reserve_seat"] <= RETRIES
          /\ calls["sleep"] <= RETRIES - 1
          /\ pc = "returned" => result.success /\ raised = None
          /\ pc = "raised" => ~result.success /\ raised # None)
    /\ <>Done

\* The longest run: RETRIES attempts, RETRIES - 1 sleeps, then the raise.
C6_Witness ==
    /\ pc = "raised"
    /\ calls["find_timeslot"] = RETRIES
    /\ calls["sleep"] = RETRIES - 1
    /\ raised.at = RETRIES

(***************************************************************************)
(* Captcha loop (core/auth.py, handle_captcha)                             *)
(***************************************************************************)

\* Iterations that ended by re-fetching BASE_URL (OCR too short, captcha
\* rejected) or by following a start link.
Consumed == reqs["base_get"] + reqs["follow"]

\* The iteration at hand ends the loop's range.
Exhausts ==
    /\ pc' = "raised"
    /\ raised' = [kind |-> "CaptchaExhausted", at |-> 0]
    /\ captcha_end' = "exhausted"

\* The current iteration ends and the next one, if the range has one, runs on a
\* newly fetched document.
Continues ==
    /\ html'.id = captcha_attempt
    /\ html'.id # html.id
    /\ IF captcha_attempt < MAX_CAPTCHA_RETRIES
       THEN pc' = "captcha" /\ captcha_attempt' = captcha_attempt + 1
       ELSE Exhausts

\* An iteration solves the image of the current document.
Solves == pc = "captcha" /\ reqs'["solve_captcha"] = reqs["solve_captcha"] + 1

\* C7: every iteration that re-fetched or followed a link used up one value of
\* range(1, MAX_CAPTCHA_RETRIES + 1): the loop variable is one more than their
\* number and never exceeds the bound, at most MAX_CAPTCHA_RETRIES OCR calls
\* and form POSTs happen, and the call fails with the exhausted error exactly
\* when MAX_CAPTCHA_RETRIES iterations were used up.
C7_CaptchaLoopBounded ==
    /\ reqs["solve_captcha"] <= MAX_CAPTCHA_RETRIES
    /\ reqs["submit"] <= MAX_CAPTCHA_RETRIES
    /\ reqs["submit"] <= reqs["solve_captcha"]
    /\ Consumed <= MAX_CAPTCHA_RETRIES
    /\ pc \in {"captcha", "captcha_done"} =>
          /\ captcha_attempt \in 1..MAX_CAPTCHA_RETRIES
          /\ captcha_attempt = Consumed + 1
          /\ reqs["solve_captcha"] <= captcha_attempt
    /\ Consumed = MAX_CAPTCHA_RETRIES <=> captcha_end = "exhausted"
    /\ captcha_end = "exhausted" <=> auth_error.kind = "CaptchaExhausted"
    /\ captcha_end = "exhausted" => pc = "raised" /\ raised = auth_error

\* The bound was used up by a followed link, a short OCR result and a rejected
\* submission together.
C7_Witness ==
    /\ captcha_end = "exhausted"
    /\ reqs["follow"] >= 1
    /\ reqs["submit"] >= 1
    /\ reqs["solve_captcha"] > reqs["submit"]

\* C8: a step that solves an image and gets a text shorter than 4 characters
\* extracts no token and POSTs no form; it GETs BASE_URL once, makes the fetched
\* document the current one and uses up one iteration.
C8_ShortOcrRefetches ==
    [][(Solves /\ captcha_text' < 4) =>
          /\ reqs'["token_search"] = reqs["token_search"]
          /\ reqs'["submit"] = reqs["submit"]
          /\ last_form' = last_form
          /\ reqs'["base_get"] = reqs["base_get"] + 1
          /\ reqs'["follow"] = reqs["follow"]
          /\ captcha_doc' = html.id
          /\ Continues]_vars

\* An OCR result of length 3 was discarded and the loop went on with a new
\* document, nothing submitted.
C8_Witness ==
    /\ pc = "captcha"
    /\ captcha_text = 3
    /\ captcha_attempt = 2
    /\ reqs["base_get"] = 1
    /\ reqs["submit"] = 0
    /\ html.id = 1

\* C9: a step that solves an image (text of length >= 4) of a document without
\* a token raises the token-not-found error at once: no POST, no GET, the loop
\* variable and the document stay; and every form POSTed carries the token of
\* the document whose image was solved for it.
C9_NoTokenIsFatal ==
    /\ [](reqs["submit"] >= 1 =>
             /\ last_form.sform_token >= 0
             /\ last_form.sform_token = last_form.image_of
             /\ last_form.captcha >= 4)
    /\ [](reqs["submit"] = 0 => last_form = NoForm)
    /\ [][(Solves /\ captcha_text' >= 4 /\ ~html.token) =>
             /\ pc' = "raised"
             /\ raised' = [kind |-> "TokenNotFound", at |-> 0]
             /\ reqs'["token_search"] = reqs["token_search"] + 1
             /\ reqs'["submit"] = reqs["submit"]
             /\ reqs'["base_get"] = reqs["base_get"]
             /\ reqs'["follow"] = reqs["follow"]
             /\ last_form' = last_form
             /\ html' = html
             /\ captcha_attempt' = captcha_attempt]_vars

\* A form was POSTed for one document, and a later document had an image but
\* no token.
C9_Witness ==
    /\ captcha_end = "no_token"
    /\ pc = "raised"
    /\ reqs["submit"] >= 1
    /\ last_form.image_of < html.id

\* A step on a document without image follows the start link.
FollowsLink ==
    /\ reqs' = Did({"follow"})
    /\ Continues

\* A step on a document without image returns without any request.
ReturnsAtOnce ==
    /\ pc' = "captcha_done"
    /\ reqs' = reqs
    /\ html' = html

\* A step on a document without image raises the captcha-not-found error.
RaisesNotFound ==
    /\ pc' = "raised"
    /\ raised' = [kind |-> "CaptchaNotFound", at |-> 0]
    /\ reqs' = reqs

\* C10 as stated: without image, the start link is followed if present;
\* otherwise the call returns if the overview marker is present; otherwise it
\* raises the captcha-not-found error.
C10_AsStated ==
    [][(pc = "captcha" /\ ~html.img) =>
          IF html.start_link THEN FollowsLink
          ELSE IF html.overview THEN ReturnsAtOnce
          ELSE RaisesNotFound]_vars

\* C10 (amended): without image, if the text "Neue Platzreservierung starten"
\* is present, the link carrying it is followed when one is found and the call
\* returns at once when none is found (whatever the overview marker says);
\* without that text the call returns if the overview marker is present and
\* raises the captcha-not-found error otherwise.
C10_NoImageBranches ==
    [][(pc = "captcha" /\ ~html.img) =>
          IF html.start_text
          THEN IF html.start_link THEN FollowsLink ELSE ReturnsAtOnce
          ELSE IF html.overview THEN ReturnsAtOnce
          ELSE RaisesNotFound]_vars

\* handle_captcha returned on a document that has neither an image, nor a start
\* link, nor the overview marker.
C10_Witness ==
    /\ pc = "captcha_done"
    /\ captcha_end = "no_start_link"
    /\ ~html.img
    /\ ~html.start_link
    /\ ~html.overview

\* An iteration POSTs the confirmation form.
Submits == pc = "captcha" /\ reqs'["submit"] = reqs["submit"] + 1

\* The GETs an iteration makes after its POST.
GetsAfterPost(what) ==
    reqs' = Did({"solve_captcha", "token_search", "submit"} \cup what)

\* handle_captcha returns, the current document staying what it was.
ReturnsAfter(what) ==
    /\ pc' = "captcha_done"
    /\ html' = html
    /\ captcha_attempt' = captcha_attempt
    /\ GetsAfterPost(what)

\* The iteration ends with the GETs in `what` and the loop goes on.
LoopsAfter(what) ==
    /\ GetsAfterPost(what)
    /\ Continues

\* C11 as stated: the response to the POST is classified as success marker
\* (return, after following the continue link if there is one), else start link
\* (follow it and go on), else overview marker (return), else rejection
\* (re-fetch the base document and go on).
C11_AsStated ==
    [][Submits =>
          IF post_resp'.erfolg
          THEN ReturnsAfter(IF post_resp'.weiter THEN {"weiter_get"} ELSE {})
          ELSE IF post_resp'.start_link THEN LoopsAfter({"follow"})
          ELSE IF post_resp'.overview THEN ReturnsAfter({})
          ELSE LoopsAfter({"base_get"})]_vars

\* C11 (amended): the response to the POST is classified as success marker
\* (return, after following the continue link if there is one); else, if the
\* text "Neue Platzreservierung starten" is present, the link carrying it is
\* followed and the loop goes on when one is found, and the call returns at
\* once when none is found (whatever the overview marker says); else overview
\* marker (return); else rejection (re-fetch the base document and go on).
C11_ClassifiesResponse ==
    [][Submits =>
          IF post_resp'.erfolg
          THEN ReturnsAfter(IF post_resp'.weiter THEN {"weiter_get"} ELSE {})
          ELSE IF post_resp'.start_text
          THEN IF post_resp'.start_link THEN LoopsAfter({"follow"})
               ELSE ReturnsAfter({})
          ELSE IF post_resp'.overview THEN ReturnsAfter({})
          ELSE LoopsAfter({"base_get"})]_vars

\* handle_captcha returned after a POST whose response had the start text but
\* neither a success marker, nor a start link, nor the overview marker.
C11_Witness ==
    /\ pc = "captcha_done"
    /\ captcha_end = "no_start_link"
    /\ reqs["submit"] >= 1
    /\ post_resp.start_text
    /\ ~post_resp.erfolg
    /\ ~post_resp.start_link
    /\ ~post_resp.overview

\* C12: login raises the login-failed error exactly when the document of the
\* credential POST lacks the marker "Sie sind angemeldet als"; with the marker
\* it raises nothing and hands that very document to its caller.
C12_LoginChecksMarker ==
    /\ [](auth_error.kind = "LoginFailed" => ~login_resp.login)
    /\ [][pc = "login" =>
             /\ login_resp'.id = 0
             /\ IF login_resp'.login
                THEN /\ pc' = "captcha_call"
                     /\ html' = login_resp'
                     /\ auth_error' = None
                     /\ raised' = None
                ELSE /\ pc' = "raised"
                     /\ raised' = [kind |-> "LoginFailed", at |-> 0]
                     /\ auth_error' = raised'
                     /\ html' = html]_vars

\* login raised on a document that has every marker but the login marker.
C12_Witness ==
    /\ pc = "raised"
    /\ auth_error.kind = "LoginFailed"
    /\ calls["login"] = 1
    /\ login_resp.id = 0
    /\ ~login_resp.login
    /\ login_resp.img
    /\ login_resp.token

\* A token that names a weekday, however it is written.
Recognized(tok) == tok.text \in DayNameSet

\* The recognized tokens of the input, in their order.
Desired == SelectSeq(tr_in.target_days, Recognized)

\* Position of a weekday name in mon..sun, counted from 0.
IndexOf(name) == CHOOSE k \in 0..6 : DAY_NAMES[k + 1] = name

\* C13: for every token list and every offset in -MaxOffset..MaxOffset, every
\* element of the output is a weekday name (index in 0..6); when some token is
\* recognized, the output has one element per recognized token (plain or
\* written in upper case with blanks around it), the weekday with index
\* (d - offset) mod 7 for the token's index d; and the output is the same as
\* for the input without its unrecognized tokens.
C13_ShiftsEachRecognizedName ==
    tr_out.returned =>
        /\ \A i \in 1..Len(tr_out.days) : tr_out.days[i] \in DayNameSet
        /\ Desired # <<>> =>
              /\ Len(tr_out.days) = Len(Desired)
              /\ \A i \in 1..Len(Desired) :
                    \E k \in 0..6 :
                       /\ tr_out.days[i] = DAY_NAMES[k + 1]
                       /\ \E n \in -3..3 :
                             k = IndexOf(Desired[i].text) - tr_in.date_offset + 7 * n
        /\ tr_out.days = TargetDaysToTriggerDays(Desired, tr_in.date_offset)

\* " MON ,xyz" with offset 8 gave "sun".
C13_Witness ==
    /\ tr_out.returned
    /\ tr_in.date_offset = 8
    /\ tr_in.target_days = <<[text |-> "mon", form |-> "decorated"],
                             [text |-> "xyz", form |-> "plain"]>>
    /\ tr_out.days = <<"sun">>

\* Every token of the input is a weekday name.
AllValid == \A i \in 1..Len(tr_in.target_days) : Recognized(tr_in.target_days[i])

\* The weekdays of a list of names, as a set.
DaySet(names) == {names[i] : i \in 1..Len(names)}

\* C14: for an input of valid weekday names only and an offset in 0..6,
\* translating the output with the opposite offset gives the set of weekdays
\* of the input.
C14_RoundTrip ==
    (tr_back.returned /\ AllValid /\ tr_in.date_offset \in 0..6) =>
        DaySet(tr_back.days) = {tr_in.target_days[i].text : i \in 1..Len(tr_in.target_days)}

\* "mon,sun" with offset 5 gave "wed,tue", and that with offset -5 gave the
\* input back.
C14_Witness ==
    /\ tr_back.returned
    /\ tr_in.date_offset = 5
    /\ tr_in.target_days = <<[text |-> "mon", form |-> "plain"],
                             [text |-> "sun", form |-> "plain"]>>
    /\ tr_out.days = <<"wed", "tue">>
    /\ tr_back.days = <<"mon", "sun">>

\* The weekdays of a list follow the order mon, tue, wed, thu, fri, sat, sun.
EnumerationOrder(names) ==
    \A i, j \in 1..Len(names) : i < j => IndexOf(names[i]) <= IndexOf(names[j])

\* C15 as stated: the returned weekdays are listed in the order mon, tue, wed,
\* thu, fri, sat, sun, whatever the order of the input.
C15_AsStated == tr_out.returned => EnumerationOrder(tr_out.days)

\* C15 (amended): when some token is recognized, the returned weekdays are
\* listed in the order in which the recognized tokens appear in the input, one
\* per token (a weekday given twice appears twice): shifting the i-th returned
\* weekday forward by the offset gives the i-th recognized token.  The string
\* returned when no token is recognized is in the order mon..sun.
C15_InputOrder ==
    tr_out.returned =>
        IF Desired # <<>>
        THEN /\ Len(tr_out.days) = Len(Desired)
             /\ \A i \in 1..Len(Desired) :
                   (IndexOf(tr_out.days[i]) + tr_in.date_offset) % 7
                       = IndexOf(Desired[i].text)
        ELSE EnumerationOrder(tr_out.days)

\* "wed,mon" with offset 0 gave "wed,mon".
C15_Witness ==
    /\ tr_out.returned
    /\ tr_in.date_offset = 0
    /\ tr_in.target_days = <<[text |-> "wed", form |-> "plain"],
                             [text |-> "mon", form |-> "plain"]>>
    /\ tr_out.days = <<"wed", "mon">>

\* C16 as stated: when no token of the input is a weekday name, the call fails
\* with an error.
C16_AsStated ==
    (tr_out.returned /\ Desired = <<>>) => tr_out.raised

\* The call of find_timeslot has ended.
FindEnded == ft_out # Pending

\* The section label names a group room section, in whatever case.
GroupLabel(section) == "gruppe" \in section.words

\* The row is of the requested room kind.
OfRequestedKind(i) == GroupLabel(ft_doc[i].section) = ft_req.group_room

\* Rows of the listing that contain the target date.
DateRows == {i \in 1..Len(ft_doc) : ft_doc[i].date}

\* Rows of the requested kind that contain the target date and the requested
\* range.
MatchingRows == {i \in DateRows : OfRequestedKind(i) /\ ft_doc[i].has_target}

\* Rows of MatchingRows whose section label contains the preferred keyword, in
\* whatever case.
PreferredRows ==
    {i \in MatchingRows : ft_req.preferred_section.words \subseteq ft_doc[i].section.words}

\* First row of a non-empty set of rows, in document order.
FirstOf(rows) == CHOOSE i \in rows : \A j \in rows : i <= j

\* The rows an error message lists.
Listed == {ft_out.message.available[k].sid : k \in 1..Len(ft_out.message.available)}

\* C17: a returned link is the link of a row of the listing that contains the
\* target date and the requested range and is of the requested room kind; and
\* a row of the other kind is never listed in an error message either.
C17_ReturnedLinkMatches ==
    /\ ft_out.returned =>
          /\ ft_out.href \in 1..Len(ft_doc)
          /\ ft_doc[ft_out.href].date
          /\ ft_doc[ft_out.href].has_target
          /\ OfRequestedKind(ft_out.href)
    /\ \A i \in Listed : OfRequestedKind(i)

\* A seat was asked for; the first row has date and range but is a group room
\* row, and the link of the second row was returned.
C17_Witness ==
    /\ ft_out.returned
    /\ ~ft_req.group_room
    /\ Len(ft_doc) = 2
    /\ ft_doc[1].date /\ ft_doc[1].has_target /\ GroupLabel(ft_doc[1].section)
    /\ ft_out.href = 2

\* C18: a link is returned exactly when some row matches date, range and room
\* kind; it is the link of the first such row whose section contains the
\* preferred keyword (case-insensitively) when a keyword is given and such a
\* row exists, and the link of the first matching row otherwise.
C18_PrefersSection ==
    FindEnded =>
        /\ ft_out.returned <=> MatchingRows # {}
        /\ ft_out.returned =>
              IF ft_req.preferred_section # NoText /\ PreferredRows # {}
              THEN ft_out.href = FirstOf(PreferredRows)
              ELSE ft_out.href = FirstOf(MatchingRows)

\* Both rows match; only the second is in a section "... LESESAAL", and the
\* keyword "lesesaal" selected it.
C18_Witness ==
    /\ ft_out.returned
    /\ ft_req.preferred_section = [words |-> {"lesesaal"}, upper |-> FALSE]
    /\ MatchingRows = {1, 2}
    /\ PreferredRows = {2}
    /\ ft_doc[2].section.upper
    /\ ft_out.href = 2

\* The error message lists exactly the rows of `rows`, in document order, each
\* with its time range and section label.
ListsExactly(rows) ==
    LET available == ft_out.message.available
    IN  /\ Len(available) = Cardinality(rows)
        /\ Listed = rows
        /\ \A k \in 1..Len(available) :
              /\ k < Len(available) => available[k].sid < available[k + 1].sid
              /\ available[k].sid \in 1..Len(ft_doc) =>
                    /\ available[k].t = ft_doc[available[k].sid].range
                    /\ available[k].sec = ft_doc[available[k].sid].section

\* The call failed with the slot-not-found error.
SlotNotFound ==
    /\ ft_out.raised = "BookingError"
    /\ ft_out.message.prefix = "No slot matching time"

\* The call failed with the no-slots-for-date error.
NoSlotsForDate ==
    /\ ft_out.raised = "BookingError"
    /\ ft_out.message.prefix = "No slots found for date"
    /\ ft_out.message.available = <<>>

\* C19 as stated: when some row contains the target date and no row contains
\* both the date and the requested range, the call fails with the
\* slot-not-found error, whose message lists exactly the rows containing the
\* date.
C19_AsStated ==
    (/\ FindEnded
     /\ DateRows # {}
     /\ \A i \in DateRows : ~ft_doc[i].has_target) =>
        /\ SlotNotFound
        /\ ListsExactly(DateRows)

\* Rows of the requested kind that contain the target date and a time range
\* the pattern HH:MM–HH:MM finds.
ParsedRows == {i \in DateRows : OfRequestedKind(i) /\ ft_doc[i].range # "none"}

\* C19 (amended): when no row of the requested room kind contains both the
\* date and the requested range, and some row of the requested kind contains
\* the date and a parseable time range, the call fails with the slot-not-found
\* error, whose message lists exactly the rows of the requested kind that
\* contain the date and a parseable range, in document order, each with its
\* first time range and its section; rows of the other kind and rows without a
\* parseable range are not listed.
C19_ListsParsedRowsOfKind ==
    (FindEnded /\ MatchingRows = {} /\ ParsedRows # {}) =>
        /\ SlotNotFound
        /\ ListsExactly(ParsedRows)

\* Two rows contain the date but not the requested range; the first is of the
\* other room kind, and the message lists the second only.
C19_Witness ==
    /\ SlotNotFound
    /\ DateRows = {1, 2}
    /\ ~OfRequestedKind(1)
    /\ ft_doc[1].range = "other"
    /\ ~ft_doc[1].has_target
    /\ Listed = {2}

\* C20: when no row contains the target date the call fails with the
\* no-slots-for-date error; every failure is a BookingError with one of two
\* messages, and the message "No slot matching time ..." is raised only when
\* some row contains the date, so the message tells the two failures apart.
C20_NoSlotsForDateDistinct ==
    FindEnded =>
        /\ DateRows = {} => NoSlotsForDate
        /\ ~ft_out.returned => (SlotNotFound \/ NoSlotsForDate)
        /\ ~(SlotNotFound /\ NoSlotsForDate)
        /\ SlotNotFound => DateRows # {} /\ Listed # {}

\* The listing has two rows with slot links, none for the target date.
C20_Witness ==
    /\ NoSlotsForDate
    /\ Len(ft_doc) = 2
    /\ DateRows = {}

\* The call of select_seat has ended.
SelectEnded == ss_out # SelectPending

\* The links of the document that carry a seat id.
Candidates == {i \in 1..Len(ss_doc.links) : ss_doc.links[i].seat}

\* The numbers parsed from the candidates' descriptions.
CandidateNumbers == {ss_doc.links[i].num : i \in Candidates} \ {0}

\* The preference list that applies to the requested room kind.
Preferences ==
    IF ss_req.group_room THEN ss_req.PREFERRED_GROUP_ROOMS ELSE ss_req.PREFERRED_SEATS

\* Positions of the preference list whose number some candidate carries.
PresentPrefs == {p \in 1..Len(Preferences) : Preferences[p] \in CandidateNumbers}

\* C21: a returned pair is the link and the description of one candidate of
\* the document; it carries the first number of the preference list that
\* some candidate carries, and it is the first candidate in document order
\* when the list names no number a candidate carries (the list is empty, no
\* description has a number, or none of the listed numbers is there).
C21_PrefersListOrder ==
    ss_out.returned =>
        /\ ss_out.seat_href \in Candidates
        /\ ss_out.desc = ss_out.seat_href
        /\ IF PresentPrefs # {}
           THEN ss_doc.links[ss_out.seat_href].num = Preferences[FirstOf(PresentPrefs)]
           ELSE ss_out.seat_href = FirstOf(Candidates)

\* Candidates "Platz 1", "Platz 2" and the preference list [2, 1]: the second
\* candidate was returned.
C21_Witness ==
    /\ ss_out.returned
    /\ ~ss_req.group_room
    /\ ss_req.PREFERRED_SEATS = <<2, 1>>
    /\ Candidates = {1, 2}
    /\ ss_doc.links[1].num = 1
    /\ ss_doc.links[2].num = 2
    /\ ss_out.seat_href = 2

\* The call failed with the slot-unavailable error.
SlotUnavailable ==
    /\ ss_out.raised = "BookingError"
    /\ ss_out.message = "Reservation not possible for this time slot."

\* The call failed with the no-seats-available error.
NoSeatsAvailable ==
    /\ ss_out.raised = "BookingError"
    /\ ss_out.message \in {"No available seats found.",
                            "No available group rooms found."}

\* C22 as stated: the call fails with the slot-unavailable error exactly when
\* the field "Reservierung möglich?" is there with the value "Nein"; with the
\* field absent or its value not negative, the seats are collected.
C22_AsStated ==
    SelectEnded =>
        /\ SlotUnavailable <=> ss_doc.field = "Nein"
        /\ SlotUnavailable => ~ss_out.returned /\ ss_out.seat_href = 0

ReserveEnded == rs_out # ReservePending

\* C24: the call returns details exactly when the response has the success
\* marker; otherwise it raises the reservation-failed error, whose message
\* carries the hint "You may already have a reservation" exactly when the word
\* "bereits" is in the response, however it is written.
C24_SuccessMarkerDecides ==
    ReserveEnded =>
        /\ rs_out.returned <=> rs_resp.erfolg
        /\ ~rs_resp.erfolg =>
              /\ rs_out.raised = "BookingError"
              /\ IF rs_resp.bereits # ""
                 THEN rs_out.message =
                        "Reservation failed. You may already have a reservation for this time."
                 ELSE rs_out.message = "Reservation failed."

\* The response has no success marker and says "Bereits ..."; the error
\* carries the hint.
C24_Witness ==
    /\ rs_out.raised = "BookingError"
    /\ rs_resp.bereits = "Bereits"
    /\ rs_out.message =
          "Reservation failed. You may already have a reservation for this time."

\* The texts of the model's lines that are details: not empty, not one of the
\* two boilerplate lines, and without the two boilerplate phrases.
DetailTexts == {"Kabine 12", "08:00-12:00", "Platz-Umtausch versuchen (2)"}

\* The texts of the lines of the second cell of the first highlighted row.
SecondCellTexts ==
    IF rs_resp.rows = <<>> \/ rs_resp.rows[1].ncells < 2
    THEN <<>>
    ELSE [i \in 1..Len(rs_resp.rows[1].lines) |-> rs_resp.rows[1].lines[i].text]

\* The text is a detail.
IsDetailText(t) == t \in DetailTexts

\* C25: the details returned are the lines of the second cell of the first
\* highlighted row (none if there is no such cell), without blanks around
\* them and in their order, less the empty lines, the lines equal to one of
\* the two boilerplate lines and the lines containing one of the two
\* boilerplate phrases; a line that only contains a boilerplate line is kept.
C25_DetailsAreFilteredLines ==
    rs_out.returned => rs_out.details = SelectSeq(SecondCellTexts, IsDetailText)

\* Of " Platz-Umtausch versuchen ", "Platz-Umtausch versuchen (2)" and
\* "Kabine 12" in the first of two highlighted rows, the last two were returned.
C25_Witness ==
    /\ rs_out.returned
    /\ Len(rs_resp.rows) = 2
    /\ SecondCellTexts = <<"Platz-Umtausch versuchen", "Platz-Umtausch versuchen (2)",
                           "Kabine 12">>
    /\ rs_out.details = <<"Platz-Umtausch versuchen (2)", "Kabine 12">>

\* Number of entries of a registry with the given id.
EntriesOf(reg, id) == Cardinality({k \in 1..Len(reg) : reg[k].id = id})

\* C29: after schedule_job(job) the registry has at most one entry per id, and
\* one for the job exactly when the job is enabled and has a trigger; a second
\* call with the same job leaves the registry as the first left it; and
\* remove_job_from_scheduler leaves no entry for the id, changes no other
\* entry, and changes nothing when called for an id without entry.
C29_ScheduleIdempotent ==
    /\ sj_out.calls >= 1 =>
          /\ \A id \in 1..MaxRegistryIds : EntriesOf(sj_out.once, id) <= 1
          /\ EntriesOf(sj_out.once, sj_in.job.id) = 1 <=>
                (sj_in.job.enabled /\ (sj_in.job.recurring \/ sj_in.job.run_at # ""))
          /\ \A id \in 1..MaxRegistryIds \ {sj_in.job.id} :
                EntriesOf(sj_out.once, id) = EntriesOf(sj_in.registry, id)
    /\ sj_out.calls >= 2 => sj_out.twice = sj_out.once
    /\ sj_out.calls >= 3 =>
          /\ EntriesOf(sj_out.removed, sj_in.job.id) = 0
          /\ sj_out.removed = remove_job_from_scheduler(sj_out.twice, sj_in.job.id)
          /\ \A id \in 1..MaxRegistryIds \ {sj_in.job.id} :
                EntriesOf(sj_out.removed, id) = EntriesOf(sj_in.registry, id)

\* The job had a date entry, is recurring now, and was scheduled twice: the
\* registry holds one cron entry for it, beside the entry of the other job.
C29_Witness ==
    /\ sj_out.calls = 3
    /\ Len(sj_in.registry) = 2
    /\ sj_in.job.id = 1
    /\ sj_in.job.recurring
    /\ \E k \in 1..2 : sj_in.registry[k] = [id |-> 1, trigger |-> "date"]
    /\ EntriesOf(sj_out.twice, 1) = 1
    /\ Len(sj_out.twice) = 2
    /\ Len(sj_out.removed) = 1

\* An invocation of run_booking_job returns in this step.
RunReturns == sched_run.pc \in {"fired", "finishing"} /\ sched_run'.pc = "idle"

\* The row the invocation found is the row of an enabled one-shot job.
FoundEnabledOneShot ==
    IF sched_run.pc = "fired"
    THEN LET job == get_job(store, sched_run.job_id)
         IN  job # NoJob /\ job.enabled /\ ~job.recurring
    ELSE ~sched_run.recurring

\* The job of the invocation is disabled and has no entry after the step.
LeftDisabledAndUnscheduled ==
    /\ ~get_job(store', sched_run.job_id).enabled
    /\ ~HasEntry(registry', sched_run.job_id)

\* C26 as stated: every invocation of run_booking_job that finds an enabled
\* one-shot job leaves it disabled in the store and without entry in the
\* registry when it returns.
C26_AsStated ==
    [][(RunReturns /\ FoundEnabledOneShot) => LeftDisabledAndUnscheduled]_vars

\* The statuses of a row of the booking log.
Statuses == {"running", "success", "failed", "error"}

\* The run is between log_booking_start and log_booking_finish.
InProgress(run) == run.pc \in {"executing", "finishing"}

\* The row a run in progress appended: still 'running', never updated.
OwnRowRunning(run, manual) ==
    InProgress(run) =>
        /\ run.log_id \in 1..Len(booking_log)
        /\ booking_log[run.log_id] =
              [job_id |-> run.job_id, status |-> "running", manual |-> manual,
               updates |-> 0]

\* The step of a run that calls log_booking_start appends one 'running' row.
AppendsRunning(run, run_after) ==
    (~InProgress(run) /\ InProgress(run_after)) =>
        /\ Len(booking_log') = Len(booking_log) + 1
        /\ SubSeq(booking_log', 1, Len(booking_log)) = booking_log
        /\ booking_log'[Len(booking_log')].status = "running"
        /\ run_after.log_id = Len(booking_log')
        /\ run_after.pc = "executing"

\* The step after execute_booking updates the run's row, and no other, to the
\* status of the outcome.
FinishesOwnRow(run, run_after) ==
    (run.pc = "finishing" /\ run_after.pc = "idle") =>
        /\ booking_log' = [booking_log EXCEPT
                              ![run.log_id].status = StatusOf(run.outcome),
                              ![run.log_id].updates = 1]

\* Every row has one of the four statuses, is 'running' exactly while not yet
\* updated, and a 'running' row belongs to a run in progress.
LogRowsWellFormed ==
    /\ \A k \in 1..Len(booking_log) :
          /\ booking_log[k].status \in Statuses
          /\ booking_log[k].updates = IF booking_log[k].status = "running" THEN 0 ELSE 1
          /\ booking_log[k].status = "running" =>
                \/ InProgress(sched_run) /\ sched_run.log_id = k
                \/ InProgress(manual_run) /\ manual_run.log_id = k
    /\ OwnRowRunning(sched_run, FALSE)
    /\ OwnRowRunning(manual_run, TRUE)

\* execute_booking itself leaves the log alone.
ExecuteKeepsLog(run, run_after) ==
    (run.pc = "executing" /\ run_after.pc = "finishing") => UNCHANGED booking_log

LogRowSteps ==
    /\ AppendsRunning(sched_run, sched_run')
    /\ AppendsRunning(manual_run, manual_run')
    /\ FinishesOwnRow(sched_run, sched_run')
    /\ FinishesOwnRow(manual_run, manual_run')
    /\ ExecuteKeepsLog(sched_run, sched_run')
    /\ ExecuteKeepsLog(manual_run, manual_run')

\* C27: run_booking_job and job_run_now append a 'running' row before
\* execute_booking is called and update that same row exactly once afterwards,
\* to 'success', 'failed' or 'error' by outcome; no row of a run that has
\* completed is 'running', and every status is one of the four.
C27_LogRowLifecycle == []LogRowsWellFormed /\ [][LogRowSteps]_vars

\* A scheduled run that ended with another exception and a manual run that
\* ended with BookingError have both completed, each with its own row.
C27_Witness ==
    /\ sched_run.pc = "idle"
    /\ manual_run.pc = "idle"
    /\ Len(booking_log) = 2
    /\ \E k \in 1..2 : booking_log[k].status = "error" /\ ~booking_log[k].manual
    /\ \E k \in 1..2 : booking_log[k].status = "failed" /\ booking_log[k].manual

\* The invocation has begun.
Begun(r) == runs[r].pc # "new"

\* C28: every invocation of execute_booking that has begun has made exactly
\* one session, every request of it (login, captcha, every attempt) is on that
\* session, the sessions of two invocations differ, and no session is used by
\* two invocations.
C28_OneSessionPerRun ==
    /\ \A r \in RunIds :
          /\ runs[r].created = (IF Begun(r) THEN 1 ELSE 0)
          /\ Begun(r) <=> runs[r].session # 0
    /\ \A u \in session_uses : u.session = runs[u.run].session
    /\ \A r1, r2 \in RunIds :
          (r1 # r2 /\ Begun(r1) /\ Begun(r2)) => runs[r1].session # runs[r2].session
    /\ \A u, v \in session_uses : u.session = v.session => u.run = v.run

\* Two invocations overlap, both past their first attempt, and both have
\* logged in, solved the captcha and made attempts.
C28_Witness ==
    /\ runs[1].pc = "sleep" /\ runs[1].attempt = 2
    /\ runs[2].pc = "attempt" /\ runs[2].attempt = 2
    /\ \A r \in {1, 2}, stage \in {"login", "captcha", "attempt"} :
          \E u \in session_uses : u.run = r /\ u.stage = stage

\* C30 as stated: once the shutdown has been signalled, an invocation that is
\* sleeping between two attempts makes no further attempt.
C30_AsStated ==
    [][\A r \in RunIds :
          (stopping = TRUE /\ runs[r].pc = "sleep") => runs'[r].pc # "attempt"]_vars

\* C37 as stated: the no-slots-for-date error is raised exactly when no row of
\* the requested kind that contains the date has a parseable time range, and
\* the slot-not-found error exactly when there are such rows and none of them
\* contains the requested range.
C37_AsStated ==
    FindEnded =>
        /\ NoSlotsForDate <=> ParsedRows = {}
        /\ SlotNotFound <=>
              (ParsedRows # {} /\ \A i \in ParsedRows : ~ft_doc[i].has_target)

\* C37 (amended): the no-slots-for-date error is raised exactly when no row of
\* the requested kind that contains the date has a parseable time range or
\* contains the requested range, so also when the rows for the date are all of
\* the other room kind; the slot-not-found error is raised exactly when some
\* row of the requested kind with the date has a parseable range and no row
\* of the requested kind with the date contains the requested range.
C37_ErrorsByParsedRows ==
    FindEnded =>
        /\ NoSlotsForDate <=> (ParsedRows = {} /\ MatchingRows = {})
        /\ SlotNotFound <=> (ParsedRows # {} /\ MatchingRows = {})
        /\ (DateRows # {} /\ \A i \in DateRows : ~OfRequestedKind(i)) => NoSlotsForDate

\* Both rows contain the date and a parseable range, one even the requested
\* range, but both stand under a section of the other room kind.
C37_Witness ==
    /\ NoSlotsForDate
    /\ DateRows = {1, 2}
    /\ \A i \in DateRows : ~OfRequestedKind(i) /\ ft_doc[i].range # "none"
    /\ ft_doc[2].has_target

\* Last row of a non-empty set of rows, in document order.
LastOf(rows) == CHOOSE i \in rows : \A j \in rows : j <= i

\* The candidates whose description carries the number n.
CandidatesNumbered(n) == {i \in Candidates : ss_doc.links[i].num = n}

\* C38: when the first preferred number that some candidate carries is carried
\* by several candidates, the last of them in document order is returned; when
\* no preferred number is carried by a candidate, the first candidate in
\* document order is returned.
C38_LastDuplicateWins ==
    ss_out.returned =>
        IF PresentPrefs # {}
        THEN ss_out.seat_href =
                LastOf(CandidatesNumbered(Preferences[FirstOf(PresentPrefs)]))
        ELSE ss_out.seat_href = FirstOf(Candidates)

\* Two candidates both read "Platz 1", 1 is the first preferred number
\* present, and the second candidate was returned.
C38_Witness ==
    /\ ss_out.returned
    /\ Candidates = {1, 2}
    /\ ss_doc.links[1].num = 1
    /\ ss_doc.links[2].num = 1
    /\ Len(Preferences) = 2
    /\ Preferences[2] = 1
    /\ Preferences[1] = 3
    /\ ss_out.seat_href = 2

\* C33: the registry has at most one entry per job id, and an entry only for
\* a job that exists in the store and is enabled there.
C33_RegistryFollowsStore ==
    \A k \in 1..Len(registry) :
        /\ EntriesOf(registry, registry[k].id) = 1
        /\ get_job(store, registry[k].id) # NoJob
        /\ get_job(store, registry[k].id).enabled

\* The one-shot job was scheduled, ran once (its row of the log is finished),
\* and is now disabled and without entry.
C33_Witness ==
    /\ started = TRUE
    /\ sched_run = IdleRun
    /\ Len(store) = 1
    /\ store[1] # NoJob
    /\ ~store[1].recurring /\ ~store[1].enabled
    /\ registry = <<>>
    /\ Len(booking_log) = 1
    /\ booking_log[1].status = "failed" /\ ~booking_log[1].manual

\* run_booking_job takes its step from the call to the early return or to
\* the call of execute_booking.
RunStartStep == sched_run.pc = "fired" /\ sched_run' # sched_run

\* C35: run_booking_job called for an id without row, or for a disabled job,
\* returns without calling execute_booking, appends no log row and leaves the
\* store and the registry as they are.
C35_SkipsMissingOrDisabled ==
    [][(/\ RunStartStep
        /\ \/ get_job(store, sched_run.job_id) = NoJob
           \/ ~get_job(store, sched_run.job_id).enabled) =>
            /\ sched_run'.pc = "idle"
            /\ UNCHANGED <<store, registry, booking_log>>]_vars

\* The job was switched off between the firing of its trigger and the call:
\* the call has returned, the log is empty and the job is still there.
C35_Witness ==
    /\ started = TRUE
    /\ sched_run.pc = "idle"
    /\ sched_run.outcome = "disabled"
    /\ get_job(store, 1) # NoJob
    /\ booking_log = <<>>

\* job_run_now(id) goes on to the call of execute_booking.
ManualRuns(id) ==
    /\ ManualStart
    /\ manual_run'.pc = "executing"
    /\ manual_run'.job_id = id

\* What a step of job_run_now does to the log: the start appends one row
\* marked manual, the end updates that row.
ManualLogStep ==
    IF manual_run.pc = "idle"
    THEN booking_log' = log_booking_start(booking_log, manual_run'.job_id, TRUE)
    ELSE IF manual_run.pc = "executing" THEN UNCHANGED booking_log
    ELSE booking_log' = log_booking_finish(booking_log, manual_run.log_id,
                                           StatusOf(manual_run.outcome))

\* C36: job_run_now leaves the jobs table and the registry as they are at
\* every step, whatever the outcome, its only effect being one log row marked
\* manual; and it runs the booking for any job with a target date, disabled
\* or not.
C36_ManualRunOnlyLogs ==
    /\ [][manual_run' # manual_run =>
            /\ UNCHANGED <<store, registry>>
            /\ ManualLogStep]_vars
    /\ [](started = TRUE =>
            \A id \in 1..Len(store) :
                (/\ manual_run.pc = "idle"
                 /\ store[id] # NoJob
                 /\ TargetDate(store[id]) # ""
                 /\ Len(booking_log) < MaxLogRows) => ENABLED ManualRuns(id))

\* A manual run of the disabled one-shot job has ended with another exception:
\* the job is as before and the log has the one manual row.
C36_Witness ==
    /\ started = TRUE
    /\ manual_run = IdleRun
    /\ sched_run = IdleRun
    /\ get_job(store, 1) # NoJob
    /\ ~store[1].recurring /\ ~store[1].enabled /\ store[1].run_at # ""
    /\ registry = <<>>
    /\ Len(booking_log) = 1
    /\ booking_log[1].status = "error" /\ booking_log[1].manual

\* The desired weekdays of the job, as indices.
DesiredDays == {DAY_INDEX(cron_in.cron_days[i]) : i \in 1..Len(cron_in.cron_days)}

\* The weekdays the registered trigger fires on, as indices.
TriggerDays == {DAY_INDEX(cron_out.trigger_days[k]) : k \in 1..Len(cron_out.trigger_days)}

\* C31 as stated: when the trigger has fired on weekday w, the target date
\* falls on weekday (w + o) mod 7, a desired weekday; and every desired
\* weekday is the target of some trigger day.
C31_AsStated ==
    /\ cron_out.pc = "ran" =>
          /\ cron_out.target = (cron_out.fired + cron_in.date_offset) % 7
          /\ cron_out.target \in DesiredDays
    /\ cron_out.pc # "new" =>
          \A d \in DesiredDays :
              \E w \in TriggerDays : (w + cron_in.date_offset) % 7 = d

\* C32: the target date of a run is computed once, before authentication and
\* before any attempt; every call of find_timeslot of the run has that date
\* and the job's time range, room kind and preferred section, whatever the
\* clock says at the attempt; and the row of the booking log has that date.
C32_TargetDateFixed ==
    /\ date_run.computed = (IF date_run.pc = "called" THEN 0 ELSE 1)
    /\ date_run.pc = "called" => date_run.finds = {} /\ date_run.attempt = 0
    /\ date_run.log_date = date_run.target_date
    /\ \A f \in date_run.finds :
          f = FindArgs(f.attempt, date_run.target_date, date_run.job.time_slot,
                       date_run.job.group_room, date_run.job.preferred_section)
    /\ \A n \in 1..RETRIES :
          (n < date_run.attempt \/ (n = date_run.attempt /\ date_run.pc # "attempt")) =>
              \E f \in date_run.finds : f.attempt = n

\* A recurring job with offset 2 was run on day 0; midnight has passed before
\* the second and before the third attempt, and all three asked for day 2.
C32_Witness ==
    /\ date_run.job.recurring
    /\ date_run.job.date_offset = 2
    /\ today = 2
    /\ date_run.pc = "raised"
    /\ date_run.attempt = 3
    /\ Cardinality(date_run.finds) = 3
    /\ \A f \in date_run.finds : f.date = 2
    /\ date_run.log_date = 2

\* C34 as stated: once every handler has completed, the registry holds an
\* entry for the job only if the job exists in the store and is enabled.
C34_AsStated ==
    (\A h \in Handlers : Completed(h)) =>
        (HasEntry(registry, 1) =>
            get_job(store, 1) # NoJob /\ get_job(store, 1).enabled)

====
